---------------------------- MODULE Spec2Model ----------------------------
(***************************************************************************)
(* Note lifecycle of webchord: the chord buttons (play mode and            *)
(* arpeggiator mode, ChordButtons component), the recording buffer they    *)
(* write, and the timeline playback scheduler (Timeline component), all    *)
(* driving one audio engine with a live pool and a timeline pool.          *)
(***************************************************************************)
EXTENDS Integers, Sequences, FiniteSets, TLC

(***************************************************************************)
(* Bounds of the model.                                                    *)
(***************************************************************************)
NumButtons == 3
NumArpButtons == 1
MaxChordLen == 2
MaxOctaves == 2
MaxArpClosures == 2
MaxClips == 2
MaxElapsedMs == 1200
MaxSessions == 2
MaxNow == 2
MaxRecorded == 3
MaxArpRecorded == 2
MaxSaved == 1
MaxDateNow == 4
NumSharedButtons == 2
MaxEngineElapsedMs == 50
MaxPresetTimers == 1
MaxApplySessions == 1
MaxApplyElapsedMs == 20

(***************************************************************************)
(* Values of the program.                                                  *)
(***************************************************************************)
DefaultBpm == 120
ToleranceMs == 30
TickMs == 10
PruneLimit == 1000
OctaveSemitones == 12
TotalBeats == 32

Degrees == 0 .. (NumButtons - 1)
PitchSet == {60, 72}
NoNote == 0 - 1
Undef == 0
PlaybackModes == {"play", "arpeggiator", "drum"}
ArpPatterns == {"up", "down", "updown", "random"}

VARIABLES
    audioEngine,        \* the audioEngine prop is non-null
    wasmReady,          \* WasmAudioEngine.wasmEngine is set
    releaseMode,        \* store: audio.releaseMode
    currentMode,        \* store: audio.currentMode
    arpSettings,        \* store: playback.arpeggiator (pattern, octaves, gate < 1.0)
    activeButtons,      \* activeButtonsRef
    activeNotes,        \* activeNotesRef: degree -> stored notes
    globalMidiNotes,    \* globalMidiNotesRef: pitch -> set of holding buttons
    arpSessions,        \* per held arpeggiator button: the closure of handleButtonDown
    staleTimers,        \* gate-off timeouts whose button was released before they fired
    liveSounding,       \* live pool of the engine: pitches switched on
    liveParams,         \* live pool of the engine: the parameters set and whether
                        \* an immediate noteOff overwrote its ADSR since
    now,                \* performance.now()
    isRecording,        \* store: sequencer.isRecording
    recordingStartTime, \* store: sequencer.recordingStartTime
    recordedNotes,      \* store: sequencer.recordedNotes
    calls,              \* engine calls issued by the last handler, in order
    lastAction,         \* the last handler that ran
    episode,            \* history: per pitch, the live calls since its first holder pressed
    pressedIn,          \* history: the mode each held button was pressed in
    isPlaying,          \* store: sequencer.isPlaying
    isLooping,          \* Timeline state isLooping
    patterns,           \* store: sequencer.patterns (ids of the existing patterns)
    timeline,           \* store: sequencer.timeline, the placed clips in list order
    playbackPosition,   \* store: sequencer.playbackPosition, in ms (beats * ms per beat)
    elapsedMs,          \* performance.now() - startTime of the running playback effect
    lastTime,           \* playbackRef.lastTime
    activeClips,        \* playbackRef.activeClips: clip id -> pitches marked sounding
    timelineNotes,      \* playbackRef.timelineNotes (keys)
    scheduledNotes,     \* scheduledNotes of the running playback effect
    currentParametersClipId, \* playbackRef.currentParametersClipId (0: null)
    activeClipsWithParams,   \* playbackRef.activeClipsWithParams
    engineParams,       \* timeline pool of the engine: the parameters set (0: the store's)
    tlSounding,         \* timeline pool of the engine: pitches switched on
    tlBegunBy,          \* history: clip whose Begin last switched the pitch on (0: none)
    tlOffsSinceOn,      \* history: timelineNoteOff(p) since the last timelineNoteOn(p)
    paramLog,           \* history: activations and deactivations of the last handler
    beginLog,           \* history: the noteOn events the last handler dispatched
    dispatchedKeys,     \* history: keys dispatched since play start or the last restart
    redispatched,       \* history: keys dispatched again since then
    sessions,           \* number of playback effects started so far
    savedPatterns,      \* store: the patterns savePattern appended to sequencer.patterns
    synthesis,          \* store: the synthesis and effects configuration (a version of it)
    presetTimers,       \* pending setTimeout callbacks of applyPreset
    saveReturn,         \* what the last savePattern call gave its caller
    draggedPattern,     \* Timeline state draggedPattern: a pattern id (0: null)
    draggedClip,        \* Timeline state draggedClip: a clip id (0: null)
    dragging,           \* the drag in progress: "none", "pattern" or "clip"
    dateNow             \* Date.now(), read for the ids of new patterns and clips

liveVars == <<audioEngine, wasmReady, releaseMode, currentMode, arpSettings, activeButtons,
              activeNotes, globalMidiNotes, arpSessions, staleTimers, liveSounding,
              liveParams, episode, pressedIn>>
recVars == <<now, isRecording, recordingStartTime, recordedNotes>>
logVars == <<calls, lastAction>>
tlVars == <<isPlaying, isLooping, patterns, timeline, playbackPosition, elapsedMs,
            lastTime, activeClips,
            timelineNotes, scheduledNotes, currentParametersClipId,
            activeClipsWithParams, engineParams, tlSounding, tlBegunBy,
            tlOffsSinceOn, paramLog, beginLog,
            dispatchedKeys, redispatched, sessions>>
dragVars == <<draggedPattern, draggedClip, dragging, dateNow>>
seqVars == <<savedPatterns, synthesis, presetTimers, saveReturn, dragVars>>
vars == <<liveVars, recVars, logVars, tlVars, seqVars>>

(***************************************************************************)
(* Helpers on maps (JavaScript Map: a function with an explicit key set).  *)
(***************************************************************************)
MapHas(m, k) == k \in DOMAIN m
MapSet(m, k, v) == [x \in (DOMAIN m) \cup {k} |-> IF x = k THEN v ELSE m[x]]
MapDelete(m, k) == [x \in (DOMAIN m) \ {k} |-> m[x]]
EmptyMap == [x \in {} |-> 0]

Reverse(s) == [i \in 1 .. Len(s) |-> s[Len(s) + 1 - i]]
Range(s) == {s[i] : i \in 1 .. Len(s)}
Min2(a, b) == IF a < b THEN a ELSE b

(***************************************************************************)
(* The engine: WasmAudioEngine.noteOn / noteOff act on the live pool,      *)
(* timelineNoteOn / timelineNoteOff on the timeline pool; each is a no-op  *)
(* while the WASM engine is not loaded.  A call record names the pool, the *)
(* operation, the pitch, the immediate flag, the code place that issued it *)
(* and (for the timeline) the clip on whose behalf.                        *)
(***************************************************************************)
Call(pool, op, note, imm, why, clip) ==
    [pool |-> pool, op |-> op, note |-> note, imm |-> imm, why |-> why, clip |-> clip]

\* the parameters a pool holds, each named by where its value came from (0: the
\* store's configuration, n: the capturedParameters of pattern n): wave stands for
\* the waveform and the ADSR (the first two setters of an application), rest for
\* the filter, the LFO, the detune and the effects (the setters after them)
Params(n) == [wave |-> n, rest |-> n]

\* the parameters of the live pool after a setter call
PoolParams(params) == [params |-> params, adsrCut |-> FALSE]

\* st is a record holding (at least) live, lparams and calls
EngineNoteOn(st, note, why) ==
    IF wasmReady
    THEN [st EXCEPT !.live = @ \cup {note},
                    !.calls = Append(@, Call("live", "noteOn", note, FALSE, why, 0))]
    ELSE st

EngineNoteOff(st, note, imm, why) ==
    IF wasmReady
    THEN [st EXCEPT !.live = @ \ {note},
                    !.lparams = IF imm THEN [@ EXCEPT !.adsrCut = TRUE] ELSE @,
                    !.calls = Append(@, Call("live", "noteOff", note, imm, why, 0))]
    ELSE st

\* variants of the holder tests, used to show that the properties below depend on them
IsAlreadyPlayingNever(holdingButtons) == FALSE
NoHolderLeftAlways(holdingButtons) == TRUE


(***************************************************************************)
(* Play mode: the holder sets of handleButtonDown / handleButtonUp.        *)
(* A working record st carries holders (globalMidiNotesRef), live (the     *)
(* live pool), calls, rec (recordedNotes) and start (recordingStartTime).  *)
(***************************************************************************)
IsAlreadyPlaying(holdingButtons) == Cardinality(holdingButtons) > 0

NoHolderLeft(holdingButtons) == Cardinality(holdingButtons) = 0

\* chord.forEach body of handleButtonDown, play mode
PlayDownNote(st, midiNote, degree) ==
    LET h0 == IF MapHas(st.holders, midiNote) THEN st.holders
              ELSE MapSet(st.holders, midiNote, {})
        already == IsAlreadyPlaying(h0[midiNote])
        st1 == [st EXCEPT !.holders = MapSet(h0, midiNote, h0[midiNote] \cup {degree})]
    IN  IF ~already THEN EngineNoteOn(st1, midiNote, "play") ELSE st1

RECURSIVE PlayDownChord(_, _, _, _)
PlayDownChord(st, chord, i, degree) ==
    IF i > Len(chord) THEN st
    ELSE PlayDownChord(PlayDownNote(st, chord[i], degree), chord, i + 1, degree)

RecordedNote(time, type, midiNote, velocity, degree) ==
    [time |-> time, type |-> type, midiNote |-> midiNote, velocity |-> velocity,
     degree |-> degree]

\* recording part of handleButtonDown, play mode; recOn and recStart were read
\* from the store when the handler started
RecordChordDown(st, chord, degree, recOn, recStart, pressTime) ==
    IF recOn /\ Len(chord) > 0
    THEN IF recStart = 0
         THEN [st EXCEPT !.start = pressTime,
                         !.rec = [i \in 1 .. Len(chord) |->
                                    RecordedNote(0, "noteOn", chord[i], "0.7", degree + 1)]]
         ELSE [st EXCEPT !.rec = @ \o [i \in 1 .. Len(chord) |->
                                    RecordedNote(pressTime - recStart, "noteOn", chord[i],
                                                 "0.7", degree + 1)]]
    ELSE st

\* chord.forEach body of handleButtonUp
ReleaseNote(st, midiNote, degree, immediate, recOn, recStart, releaseTime) ==
    LET st1 == IF MapHas(st.holders, midiNote)
               THEN LET hb == st.holders[midiNote] \ {degree}
                    IN  IF NoHolderLeft(hb)
                        THEN [EngineNoteOff(st, midiNote, immediate, "release")
                                 EXCEPT !.holders = MapDelete(st.holders, midiNote)]
                        ELSE [st EXCEPT !.holders = MapSet(st.holders, midiNote, hb)]
               ELSE st
    IN  IF recOn /\ recStart > 0
        THEN [st1 EXCEPT !.rec = Append(@, RecordedNote(releaseTime - recStart, "noteOff",
                                                        midiNote, "0", degree + 1))]
        ELSE st1

RECURSIVE ReleaseChord(_, _, _, _, _, _, _, _)
ReleaseChord(st, chord, i, degree, immediate, recOn, recStart, releaseTime) ==
    IF i > Len(chord) THEN st
    ELSE ReleaseChord(ReleaseNote(st, chord[i], degree, immediate, recOn, recStart,
                                  releaseTime),
                      chord, i + 1, degree, immediate, recOn, recStart, releaseTime)

(***************************************************************************)
(* Arpeggiator mode: the closure of one handleButtonDown call.             *)
(***************************************************************************)
RECURSIVE ExtendChord(_, _, _)
ExtendChord(chord, oct, octaves) ==
    IF oct >= octaves THEN <<>>
    ELSE [i \in 1 .. Len(chord) |-> chord[i] + oct * OctaveSemitones]
         \o ExtendChord(chord, oct + 1, octaves)

\* a variant of arpNotes whose updown keeps both ends of the descending part
ArpNotesBothEnds(chord, pattern, octaves) ==
    LET extended == ExtendChord(chord, 0, octaves)
    IN  IF pattern = "down" THEN Reverse(extended)
        ELSE IF pattern = "updown" THEN extended \o Reverse(extended)
             ELSE extended

\* arpNotes of handleButtonDown
ArpNotes(chord, pattern, octaves) ==
    LET extended == ExtendChord(chord, 0, octaves)
        m == Len(extended)
    IN  IF pattern = "down" THEN Reverse(extended)
        ELSE IF pattern = "updown"
             THEN SubSeq(extended, 1, m - 1) \o SubSeq(Reverse(extended), 1, m - 1)
             ELSE extended

NoTimer == [note |-> NoNote, rec |-> FALSE, start |-> 0]

\* the local variables of the arpeggiator branch; idx is currentNoteIndex modulo
\* arpNotes.length (the only way the code reads it), running the state of the interval
NewSession(arpNotes, settings) ==
    [notes |-> arpNotes, idx |-> 0, cur |-> NoNote, timer |-> NoTimer,
     pattern |-> settings.pattern, gateLt1 |-> settings.gateLt1, running |-> TRUE]

\* the closure of a released button: clearInterval stopped playNote for good, so
\* of its variables only currentPlayingNote and the pending timeout are read again
Released(sess) ==
    [NewSession(<<>>, [pattern |-> "up", gateLt1 |-> sess.gateLt1])
        EXCEPT !.cur = sess.cur, !.timer = sess.timer, !.running = FALSE]

\* what clearTimeout(noteOffTimeout) at the start of playNote leaves pending
ClearedTimer(timer) == NoTimer

\* playNote: a working record st additionally carries sess, the closure's variables.
\* pick chooses the index drawn by Math.random() for the random pattern.
PlayNote(st, degree, pick) ==
    LET s0 == st.sess
        \* clear any pending note-off
        s1 == [s0 EXCEPT !.timer = ClearedTimer(s0.timer)]
        \* stop previous note
        st2 == IF s1.cur # NoNote
               THEN [EngineNoteOff(st, s1.cur, TRUE, "arpStep") EXCEPT !.sess = [s1 EXCEPT !.cur = NoNote]]
               ELSE [st EXCEPT !.sess = s1]
        len == Len(s1.notes)
        noteToPlay == IF len = 0 THEN Undef
                      ELSE IF s1.pattern = "random" THEN s1.notes[pick]
                           ELSE s1.notes[(s1.idx % len) + 1]
        idx2 == IF s1.pattern = "random" \/ len = 0 THEN s1.idx ELSE (s1.idx + 1) % len
        st3 == [EngineNoteOn(st2, noteToPlay, "arpStep")
                   EXCEPT !.sess = [st2.sess EXCEPT !.cur = noteToPlay, !.idx = idx2]]
        recOn == isRecording
        recStart == st.start
        st4 == IF recOn
               THEN IF recStart = 0
                    THEN [st3 EXCEPT !.start = now,
                                     !.rec = <<RecordedNote(0, "noteOn", noteToPlay, "jitter",
                                                            degree + 1)>>]
                    ELSE [st3 EXCEPT !.rec = Append(@, RecordedNote(now - recStart, "noteOn",
                                                     noteToPlay, "jitter", degree + 1))]
               ELSE st3
    IN  IF s1.gateLt1
        THEN [st4 EXCEPT !.sess.timer = [note |-> noteToPlay, rec |-> recOn, start |-> recStart]]
        ELSE st4

\* the setTimeout callback of playNote, run on the closure sess
GateTimeout(st) ==
    LET s0 == st.sess
        t == s0.timer
        st1 == IF s0.cur = t.note
               THEN LET a == EngineNoteOff(st, t.note, TRUE, "gate")
                        b == IF t.rec /\ t.start > 0
                             THEN [a EXCEPT !.rec = Append(@, RecordedNote(now - t.start, "noteOff",
                                                            t.note, "0", st.degree + 1))]
                             ELSE a
                    IN  [b EXCEPT !.sess.cur = NoNote]
               ELSE st
    IN  [st1 EXCEPT !.sess.timer = NoTimer]


(***************************************************************************)
(* Inputs and history of the chord buttons.                                *)
(***************************************************************************)
AllNotes == PitchSet \cup {p + k * OctaveSemitones : p \in PitchSet, k \in 0 .. (MaxOctaves - 1)}
            \cup {Undef}

IsAscending(s) == \A i \in 1 .. (Len(s) - 1) : s[i] < s[i + 1]

\* the chords generateChord may return: ascending pitches
Chords == {c \in UNION {[1 .. n -> PitchSet] : n \in 1 .. MaxChordLen} : IsAscending(c)}

ArpSettingsSet == [pattern : ArpPatterns, octaves : 1 .. MaxOctaves, gateLt1 : BOOLEAN]

CountCalls(cs, pool, op, note) ==
    Cardinality({i \in 1 .. Len(cs) : cs[i].pool = pool /\ cs[i].op = op /\ cs[i].note = note})

\* play-mode buttons held now whose stored chord contains p
HeldWith(p) ==
    {d \in activeButtons : pressedIn[d] = "play" /\ p \in Range(activeNotes[d])}

\* the history of live calls per pitch, kept from the press of a pitch's first
\* play-mode holder to the release of its last: it restarts for the pitches in started
EpisodeAfter(started, cs) ==
    [p \in AllNotes |->
        LET base == IF p \in started THEN [seen |-> TRUE, on |-> 0, off |-> 0]
                    ELSE episode[p]
        IN  IF p \in started \/ HeldWith(p) # {}
            THEN [seen |-> base.seen,
                  on |-> Min2(base.on + CountCalls(cs, "live", "noteOn", p), 2),
                  off |-> Min2(base.off + CountCalls(cs, "live", "noteOff", p), 2)]
            ELSE base]

Work(degree) ==
    [holders |-> globalMidiNotes, live |-> liveSounding, lparams |-> liveParams,
     calls |-> <<>>,
     rec |-> recordedNotes, start |-> recordingStartTime, degree |-> degree,
     sess |-> NewSession(<<>>, [pattern |-> "up", gateLt1 |-> FALSE])]

\* what a handler of the chord buttons leaves of the store and the engine
Commit(st, started) ==
    /\ globalMidiNotes' = st.holders
    /\ liveSounding' = st.live
    /\ liveParams' = st.lparams
    /\ calls' = st.calls
    /\ recordedNotes' = st.rec
    /\ recordingStartTime' = st.start
    /\ episode' = EpisodeAfter(started, st.calls)

NoOp ==
    /\ calls' = <<>>
    /\ UNCHANGED <<liveVars, recVars>>

\* the cleanup of the keyboard effect, run whenever one of its dependencies changes
ClearAllIntervals(sess) == [d \in DOMAIN sess |-> [sess[d] EXCEPT !.running = FALSE]]

(***************************************************************************)
(* Handlers of the chord buttons.                                          *)
(***************************************************************************)
\* a variant of the guard that never finds the button held
AlreadyActiveNever(degree) == FALSE

\* activeButtonsRef.current.has(degree)
AlreadyActive(degree) == degree \in activeButtons

ButtonDown(degree, chord, pick) ==
    /\ UNCHANGED seqVars
    /\ lastAction' = [name |-> "handleButtonDown", degree |-> degree, sweep |-> FALSE]
    /\ UNCHANGED tlVars
    /\ IF ~audioEngine \/ AlreadyActive(degree)
       THEN NoOp
       ELSE /\ activeButtons' = activeButtons \cup {degree}
            /\ pressedIn' = MapSet(pressedIn, degree, currentMode)
            /\ UNCHANGED <<audioEngine, wasmReady, releaseMode, currentMode, arpSettings, staleTimers,
                           now, isRecording>>
            /\ CASE currentMode = "play" ->
                      LET st1 == PlayDownChord(Work(degree), chord, 1, degree)
                          st2 == RecordChordDown(st1, chord, degree, isRecording,
                                                 recordingStartTime, now)
                      IN  /\ Commit(st2, {p \in Range(chord) : HeldWith(p) = {}})
                          /\ activeNotes' = MapSet(activeNotes, degree, chord)
                          /\ UNCHANGED arpSessions
                 [] currentMode = "arpeggiator" ->
                      LET arpNotes == ArpNotes(chord, arpSettings.pattern, arpSettings.octaves)
                          st0 == [Work(degree) EXCEPT !.sess = NewSession(arpNotes, arpSettings)]
                          st1 == PlayNote(st0, degree, pick)
                      IN  /\ Cardinality(DOMAIN arpSessions) + Len(staleTimers) < MaxArpClosures
                          /\ pick \in 1 .. (IF arpSettings.pattern = "random" /\ Len(arpNotes) > 0
                                            THEN Len(arpNotes) ELSE 1)
                          /\ Commit(st1, {})
                          /\ arpSessions' = MapSet(arpSessions, degree, st1.sess)
                          /\ activeNotes' = MapSet(activeNotes, degree, arpNotes)
                 [] OTHER ->
                      /\ Commit(Work(degree), {})
                      /\ activeNotes' = MapSet(activeNotes, degree, chord)
                      /\ UNCHANGED arpSessions

\* a variant that takes a chord generated anew at the release, not the stored one
RegeneratedChord(degree) == <<CHOOSE p \in PitchSet : \A q \in PitchSet : q <= p>>

\* activeNotesRef.current.get(degree): the chord stored at the press
StoredChord(degree) == activeNotes[degree]

ButtonUp(degree) ==
    /\ UNCHANGED seqVars
    /\ lastAction' = [name |-> "handleButtonUp", degree |-> degree, sweep |-> FALSE]
    /\ UNCHANGED tlVars
    /\ IF ~audioEngine \/ degree \notin activeButtons
       THEN NoOp
       ELSE LET chord == StoredChord(degree)
                immediate == currentMode # "play"
                st1 == ReleaseChord(Work(degree), chord, 1, degree, immediate, isRecording,
                                    recordingStartTime, now)
            IN  /\ Commit(st1, {})
                /\ arpSessions' = MapDelete(arpSessions, degree)
                /\ staleTimers' = IF MapHas(arpSessions, degree)
                                     /\ arpSessions[degree].timer # NoTimer
                                  THEN Append(staleTimers,
                                              [degree |-> degree,
                                               sess |-> Released(arpSessions[degree])])
                                  ELSE staleTimers
                /\ activeButtons' = activeButtons \ {degree}
                /\ activeNotes' = MapDelete(activeNotes, degree)
                /\ pressedIn' = MapDelete(pressedIn, degree)
                /\ UNCHANGED <<audioEngine, wasmReady, releaseMode, currentMode, arpSettings, now, isRecording>>

\* the setInterval callback of a held arpeggiator button
ArpStep(degree, pick) ==
    /\ UNCHANGED seqVars
    /\ MapHas(arpSessions, degree)
    /\ arpSessions[degree].running
    /\ pick \in 1 .. (IF arpSessions[degree].pattern = "random"
                         /\ Len(arpSessions[degree].notes) > 0
                      THEN Len(arpSessions[degree].notes) ELSE 1)
    /\ LET st1 == PlayNote([Work(degree) EXCEPT !.sess = arpSessions[degree]], degree, pick)
       IN  /\ Commit(st1, {})
           /\ arpSessions' = MapSet(arpSessions, degree, st1.sess)
    /\ lastAction' = [name |-> "playNote", degree |-> degree, sweep |-> FALSE]
    /\ UNCHANGED <<audioEngine, wasmReady, releaseMode, currentMode, arpSettings, activeButtons,
                   activeNotes, staleTimers, pressedIn, now, isRecording, tlVars>>

\* the gate-off timeout of a held arpeggiator button fires
GateOff(degree) ==
    /\ UNCHANGED seqVars
    /\ MapHas(arpSessions, degree)
    /\ arpSessions[degree].timer # NoTimer
    /\ LET st1 == GateTimeout([Work(degree) EXCEPT !.sess = arpSessions[degree]])
       IN  /\ Commit(st1, {})
           /\ arpSessions' = MapSet(arpSessions, degree, st1.sess)
    /\ lastAction' = [name |-> "gateTimeout", degree |-> degree, sweep |-> FALSE]
    /\ UNCHANGED <<audioEngine, wasmReady, releaseMode, currentMode, arpSettings, activeButtons,
                   activeNotes, staleTimers, pressedIn, now, isRecording, tlVars>>

\* a gate-off timeout fires after its button was released
StaleGateOff(i) ==
    /\ UNCHANGED seqVars
    /\ i \in 1 .. Len(staleTimers)
    /\ LET st1 == GateTimeout([Work(staleTimers[i].degree) EXCEPT !.sess = staleTimers[i].sess])
       IN  Commit(st1, {})
    /\ staleTimers' = [j \in 1 .. (Len(staleTimers) - 1) |->
                          IF j < i THEN staleTimers[j] ELSE staleTimers[j + 1]]
    /\ lastAction' = [name |-> "staleGateTimeout", degree |-> staleTimers[i].degree,
                      sweep |-> FALSE]
    /\ UNCHANGED <<audioEngine, wasmReady, releaseMode, currentMode, arpSettings, activeButtons,
                   activeNotes, arpSessions, pressedIn, now, isRecording, tlVars>>

\* the mode selector; the keyboard effect depends on currentMode
SetMode(m) ==
    /\ UNCHANGED seqVars
    /\ m # currentMode
    /\ currentMode' = m
    /\ arpSessions' = ClearAllIntervals(arpSessions)
    /\ calls' = <<>>
    /\ lastAction' = [name |-> "setMode", degree |-> 0, sweep |-> FALSE]
    /\ UNCHANGED <<audioEngine, wasmReady, releaseMode, arpSettings, activeButtons, activeNotes,
                   globalMidiNotes, staleTimers, liveSounding, liveParams, episode,
                   pressedIn,
                   recVars, tlVars>>

\* the Release Mode button; the keyboard effect depends on releaseMode
ToggleReleaseMode ==
    /\ UNCHANGED seqVars
    /\ releaseMode' = IF releaseMode = "fixed" THEN "immediate" ELSE "fixed"
    /\ arpSessions' = ClearAllIntervals(arpSessions)
    /\ calls' = <<>>
    /\ lastAction' = [name |-> "toggleReleaseMode", degree |-> 0, sweep |-> FALSE]
    /\ UNCHANGED <<audioEngine, wasmReady, currentMode, arpSettings, activeButtons,
                   activeNotes, globalMidiNotes, staleTimers, liveSounding, liveParams,
                   episode, pressedIn, recVars, tlVars>>

(***************************************************************************)
(* The timeline: patterns, clips and the playback effect of Timeline.      *)
(***************************************************************************)
Note(time, type, midiNote) == [time |-> time, type |-> type, midiNote |-> midiNote]

\* The pattern library: recordings as savePattern builds them, length (ms) being the
\* last note time + 500.  1: one press and release; 2: a press whose release was not
\* recorded (recording stopped while the button was held); 3: another pitch;
\* 4: a two-note chord held for 500 ms.
\* savePattern always stores capturedParameters, with a filter entry (the spread of
\* the store's synthesis.filter).
RecordedPatterns ==
    <<[notes |-> <<Note(0, "noteOn", 60), Note(40, "noteOff", 60)>>,
       length |-> 540, capturedParameters |-> TRUE, filter |-> TRUE],
      [notes |-> <<Note(0, "noteOn", 60)>>,
       length |-> 500, capturedParameters |-> TRUE, filter |-> TRUE],
      [notes |-> <<Note(0, "noteOn", 64), Note(40, "noteOff", 64)>>,
       length |-> 540, capturedParameters |-> TRUE, filter |-> TRUE],
      [notes |-> <<Note(0, "noteOn", 60), Note(0, "noteOn", 64),
                   Note(500, "noteOff", 60), Note(500, "noteOff", 64)>>,
       length |-> 1000, capturedParameters |-> TRUE, filter |-> TRUE]>>

\* a long recording: PruneLimit + 1 events one ms apart, pitch 60 going on and off
LongPattern ==
    [notes |-> [i \in 1 .. (PruneLimit + 1) |->
                   Note(i - 1, IF i % 2 = 1 THEN "noteOn" ELSE "noteOff", 60)],
     length |-> PruneLimit + 500, capturedParameters |-> TRUE, filter |-> TRUE]

\* a pattern generated from an artist preset: the noteOn events of a chord, staggered,
\* then its noteOff events; its capturedParameters are the preset's waveform, adsr,
\* lfo, detune and effects, without a filter entry
ArtistPattern ==
    [notes |-> <<Note(0, "noteOn", 60), Note(5, "noteOn", 64),
                 Note(43, "noteOff", 60), Note(40, "noteOff", 64)>>,
     length |-> 540, capturedParameters |-> TRUE, filter |-> FALSE]

PatternLib == RecordedPatterns \o <<LongPattern, ArtistPattern>>

LongPatternId == Len(RecordedPatterns) + 1
ArtistPatternId == Len(RecordedPatterns) + 2

\* the synthesis entry of the store's initial state has waveform, voiceCount, detune,
\* adsr and lfo, and no filter
StoreHasFilter == FALSE

PatternIds == 1 .. Len(PatternLib)
ClipIds == 1 .. MaxClips
TimelinePitches == UNION {{PatternLib[i].notes[j].midiNote : j \in 1 .. Len(PatternLib[i].notes)} :
                             i \in PatternIds}

\* ms per beat: (60 / bpm) * 1000
BeatDuration == 60000 \div DefaultBpm

Clip(id, patternId, startTime) == [id |-> id, patternId |-> patternId, startTime |-> startTime]

\* a variant of the lookup that finds a pattern for every clip
HasPatternAlways(clip) == TRUE

\* patterns.find((p) => p.id === clip.patternId) found a pattern
HasPattern(clip) == clip.patternId \in patterns

ClipStartMs(clip) == clip.startTime * BeatDuration
ClipEndMs(clip) == ClipStartMs(clip) + PatternLib[clip.patternId].length

MaxOver(S) ==
    IF S = {} THEN 0
    ELSE LET x == CHOOSE y \in S : \A z \in S : z <= y IN x

\* loopEndTime * 1000 of the playback effect
LoopDurationMs ==
    MaxOver({ClipEndMs(timeline[i]) : i \in {j \in 1 .. Len(timeline) : HasPattern(timeline[j])}})

EffectiveElapsed(e) ==
    IF isLooping /\ LoopDurationMs > 0 THEN e % LoopDurationMs ELSE e

\* isClipPlaying, with currentBeat and the clip's beats converted to ms
IsClipPlaying(clip, eff) == eff >= ClipStartMs(clip) /\ eff < ClipEndMs(clip)

Abs(x) == IF x < 0 THEN 0 - x ELSE x

\* timeDiff < 30
InTolerance(relativeTimeMs, time) == Abs(relativeTimeMs - time) < ToleranceMs

RECURSIVE SetToSeq(_)
SetToSeq(S) ==
    IF S = {} THEN <<>>
    ELSE LET x == CHOOSE y \in S : \A z \in S : y <= z
         IN  <<x>> \o SetToSeq(S \ {x})

\* A working record ts of the playback effect carries active (activeClips), tnotes
\* (timelineNotes), sched (scheduledNotes), owner (currentParametersClipId), withParams,
\* params (engineParams), tl (timeline pool), live (live pool), lparams (liveParams),
\* calls, begunBy and offs.
TimelineNoteOn(ts, note, why, clip) ==
    IF wasmReady
    THEN [ts EXCEPT !.tl = @ \cup {note},
                    !.calls = Append(@, Call("timeline", "noteOn", note, FALSE, why, clip)),
                    !.begunBy = [@ EXCEPT ![note] = clip],
                    !.offs = [@ EXCEPT ![note] = 0]]
    ELSE ts

TimelineNoteOff(ts, note, why, clip) ==
    IF wasmReady
    THEN [ts EXCEPT !.tl = @ \ {note},
                    !.calls = Append(@, Call("timeline", "noteOff", note, FALSE, why, clip)),
                    !.offs = [@ EXCEPT ![note] = Min2(@ + 1, 2)]]
    ELSE ts

RECURSIVE TimelineOffAll(_, _, _, _, _)
TimelineOffAll(ts, notes, i, why, clip) ==
    IF i > Len(notes) THEN ts
    ELSE TimelineOffAll(TimelineNoteOff(ts, notes[i], why, clip), notes, i + 1, why, clip)

RECURSIVE LiveOffAll(_, _, _, _)
LiveOffAll(ts, notes, i, why) ==
    IF i > Len(notes) THEN ts
    ELSE LiveOffAll(EngineNoteOff(ts, notes[i], TRUE, why), notes, i + 1, why)

\* the loop-restart branch of the tick
RECURSIVE RestartSweepClips(_, _, _)
RestartSweepClips(ts, clips, i) ==
    IF i > Len(clips) THEN ts
    ELSE RestartSweepClips(
             TimelineOffAll(ts, SetToSeq(ts.active[clips[i]]), 1, "loopRestart", clips[i]),
             clips, i + 1)

LoopRestart(ts) ==
    [RestartSweepClips([ts EXCEPT !.sched = {}, !.keys = {}, !.again = {}],
                       SetToSeq(DOMAIN ts.active), 1)
        EXCEPT !.active = EmptyMap, !.tnotes = {}, !.owner = 0, !.withParams = {}]

\* a variant of the restart test, used to show that the restart property depends on it
LoopRestartNever(e, last) == FALSE

\* Math.floor(elapsedMs / loopDurationMs) > Math.floor(lastTime / loopDurationMs)
LoopRestartDetected(e, last) ==
    isLooping /\ LoopDurationMs > 0 /\ (e \div LoopDurationMs) > (last \div LoopDurationMs)

\* an entry of paramLog: what an activation or deactivation of clip found and left
ParamEvent(op, clip, before, after) ==
    [op |-> op, clip |-> clip.id, pattern |-> clip.patternId,
     ownerBefore |-> before.owner, paramsBefore |-> before.params,
     ownerAfter |-> after.owner, paramsAfter |-> after.params,
     threw |-> after.thrown]

\* the setters of the engine (setWaveform ... setReverb): each writes the live pool
\* and the timeline pool, and none does anything while the WASM engine is not loaded
SetParameters(ts, params) ==
    IF wasmReady
    THEN [ts EXCEPT !.lparams = PoolParams(Params(params)), !.params = Params(params)]
    ELSE ts

\* setWaveform and setADSR alone: what an application has done when the read of a
\* cutoff of a configuration without a filter entry throws a TypeError
SetWaveformADSR(ts, params) ==
    IF wasmReady
    THEN [ts EXCEPT !.lparams = PoolParams([@.params EXCEPT !.wave = params]),
                    !.params = [@ EXCEPT !.wave = params]]
    ELSE ts

\* playbackRef.current.currentParametersClipId !== clip.id
OwnedBySelf(owner, clipId) == owner = clipId

\* first-seen activation of a clip
\* params.filter.cutoff of capturedParameters without a filter entry throws after
\* setWaveform and setADSR: the assignments after the setters are not reached
ApplyParams(ts, clip) ==
    IF PatternLib[clip.patternId].capturedParameters /\ ~OwnedBySelf(ts.owner, clip.id)
    THEN IF PatternLib[clip.patternId].filter
         THEN [SetParameters(ts, clip.patternId)
                  EXCEPT !.owner = clip.id, !.withParams = @ \cup {clip.id}]
         ELSE [SetWaveformADSR(ts, clip.patternId) EXCEPT !.thrown = TRUE]
    ELSE ts

Activate(ts, clip) ==
    IF ~MapHas(ts.active, clip.id)
    THEN LET t1 == ApplyParams([ts EXCEPT !.active = MapSet(@, clip.id, {})], clip)
         IN  [t1 EXCEPT !.plog = Append(@, ParamEvent("activate", clip, ts, t1))]
    ELSE ts

NoteKey(clip, note) == <<clip.id, note.time, note.midiNote, note.type>>

\* an entry of beginLog: how the dispatch of a noteOn event of clip found the pitch
\* marked (in the clip's own entry of activeClips, in another clip's), whether a
\* timelineNoteOff went before the timelineNoteOn, and whether it left the pitch marked
BeginEvent(clip, note, before, after) ==
    [clip |-> clip.id, note |-> note.midiNote,
     own |-> MapHas(before.active, clip.id) /\ note.midiNote \in before.active[clip.id],
     other |-> \E id \in DOMAIN before.active :
                  id # clip.id /\ note.midiNote \in before.active[id],
     forced |-> Len(after.calls) = Len(before.calls) + 2,
     marked |-> MapHas(after.active, clip.id) /\ note.midiNote \in after.active[clip.id]]

\* pattern.notes.forEach body
DispatchNote(ts, clip, note, relativeTimeMs) ==
    IF InTolerance(relativeTimeMs, note.time) /\ NoteKey(clip, note) \notin ts.sched
    THEN LET t1 == [ts EXCEPT !.sched = @ \cup {NoteKey(clip, note)},
                              !.keys = @ \cup {NoteKey(clip, note)},
                              !.again = IF NoteKey(clip, note) \in ts.keys
                                        THEN @ \cup {NoteKey(clip, note)} ELSE @]
         IN  IF note.type = "noteOn"
             THEN LET t2 == IF note.midiNote \in t1.tnotes
                            THEN TimelineNoteOff(t1, note.midiNote, "retrigger", clip.id)
                            ELSE t1
                      t3 == TimelineNoteOn(t2, note.midiNote, "begin", clip.id)
                      t4 == [t3 EXCEPT !.active = IF MapHas(@, clip.id)
                                                  THEN MapSet(@, clip.id,
                                                              @[clip.id] \cup {note.midiNote})
                                                  ELSE @,
                                       !.tnotes = @ \cup {note.midiNote}]
                  IN  [t4 EXCEPT !.blog = Append(@, BeginEvent(clip, note, t1, t4))]
             ELSE LET t2 == TimelineNoteOff(t1, note.midiNote, "end", clip.id)
                  IN  [t2 EXCEPT !.active = IF MapHas(@, clip.id)
                                            THEN MapSet(@, clip.id, @[clip.id] \ {note.midiNote})
                                            ELSE @,
                                 !.tnotes = @ \ {note.midiNote}]
    ELSE ts

\* the dispatch of the events of a recording, in the buffer's order, on a timeline pool
\* that sounds nothing: what the body of pattern.notes.forEach does to timelineNotes
\* (marked) and to the pool (sounding) for a noteOn and for a noteOff
RECURSIVE Replay(_, _, _)
Replay(notes, i, st) ==
    IF i > Len(notes) THEN st
    ELSE LET p == notes[i].midiNote
         IN  IF notes[i].type = "noteOn"
             THEN Replay(notes, i + 1,
                         [marked |-> st.marked \cup {p},
                          sounding |-> (IF p \in st.marked THEN st.sounding \ {p}
                                        ELSE st.sounding) \cup {p}])
             ELSE Replay(notes, i + 1,
                         [marked |-> st.marked \ {p}, sounding |-> st.sounding \ {p}])

ReplaySounding(notes) == Replay(notes, 1, [marked |-> {}, sounding |-> {}]).sounding

\* the notes of a pattern that pass timeDiff < 30, in the pattern's order: the body
\* of pattern.notes.forEach does nothing for the others
DueNotes(notes, relativeTimeMs) ==
    SelectSeq(notes, LAMBDA note : InTolerance(relativeTimeMs, note.time))

\* pattern.notes.forEach over the due notes, in order; the record left by one note is
\* evaluated (the test on its key set) before the next note is taken
RECURSIVE DispatchNotes(_, _, _, _, _)
DispatchNotes(ts, clip, notes, i, relativeTimeMs) ==
    IF i > Len(notes) \/ ts.thrown \/ ts.sched \notin SUBSET ts.sched THEN ts
    ELSE DispatchNotes(DispatchNote(ts, clip, notes[i], relativeTimeMs), clip, notes, i + 1,
                       relativeTimeMs)

\* the end of the else-if branch: restore the store's parameters (0) when the clip
\* owned the parameter context; currentState.synthesis.filter.cutoff of a store
\* without a filter entry throws after setWaveform and setADSR, before the owner is
\* cleared
RestoreParams(ts, clip) ==
    IF ts.owner = clip.id
    THEN IF StoreHasFilter
         THEN [SetParameters(ts, 0) EXCEPT !.owner = 0]
         ELSE [SetWaveformADSR(ts, 0) EXCEPT !.thrown = TRUE]
    ELSE ts

\* the else-if branch: the clip just ended
Deactivate(ts, clip) ==
    LET activeNotesOfClip == SetToSeq(ts.active[clip.id])
        t1 == TimelineOffAll(ts, activeNotesOfClip, 1, "deactivate", clip.id)
        t2 == [t1 EXCEPT !.tnotes = @ \ ts.active[clip.id],
                         !.active = MapDelete(@, clip.id),
                         !.withParams = @ \ {clip.id}]
        t3 == RestoreParams(t2, clip)
    IN  [t3 EXCEPT !.plog = Append(@, ParamEvent("deactivate", clip, ts, t3))]

\* timeline.forEach body; an exception thrown for one clip ends the interval
\* callback: the clips after it are not visited
ProcessClip(ts, clip, eff) ==
    IF ts.thrown \/ ~HasPattern(clip) THEN ts
    ELSE IF IsClipPlaying(clip, eff)
         THEN DispatchNotes(Activate(ts, clip), clip,
                            DueNotes(PatternLib[clip.patternId].notes, eff - ClipStartMs(clip)),
                            1, eff - ClipStartMs(clip))
         ELSE IF MapHas(ts.active, clip.id) THEN Deactivate(ts, clip)
              ELSE ts

RECURSIVE ProcessClips(_, _, _)
ProcessClips(ts, i, eff) ==
    IF i > Len(timeline) THEN ts
    ELSE ProcessClips(ProcessClip(ts, timeline[i], eff), i + 1, eff)

Prune(ts) ==
    IF ~ts.thrown /\ Cardinality(ts.sched) > PruneLimit THEN [ts EXCEPT !.sched = {}] ELSE ts

\* stopPlayback, up to its setState
StopPlaybackNotes(ts) ==
    IF audioEngine
    THEN [LiveOffAll(ts, SetToSeq(ts.tnotes), 1, "stopPlayback")
             EXCEPT !.tnotes = {}, !.active = EmptyMap]
    ELSE ts

\* the cleanup of the playback effect
EffectCleanup(ts) ==
    [TimelineOffAll(ts, SetToSeq(ts.tnotes), 1, "cleanup", 0)
        EXCEPT !.tnotes = {}, !.active = EmptyMap, !.owner = 0, !.withParams = {}]

\* const scheduledNotes = new Set() of a starting playback effect
NewScheduledNotes(ts) == [ts EXCEPT !.sched = {}, !.keys = {}, !.again = {}]

TWork ==
    [active |-> activeClips, tnotes |-> timelineNotes, sched |-> scheduledNotes,
     owner |-> currentParametersClipId, withParams |-> activeClipsWithParams,
     params |-> engineParams, tl |-> tlSounding, live |-> liveSounding,
     lparams |-> liveParams, calls |-> <<>>, thrown |-> FALSE,
     begunBy |-> tlBegunBy, offs |-> tlOffsSinceOn, plog |-> <<>>, blog |-> <<>>,
     keys |-> dispatchedKeys, again |-> redispatched]

TCommit(ts) ==
    /\ activeClips' = ts.active
    /\ timelineNotes' = ts.tnotes
    /\ scheduledNotes' = ts.sched
    /\ currentParametersClipId' = ts.owner
    /\ activeClipsWithParams' = ts.withParams
    /\ engineParams' = ts.params
    /\ tlSounding' = ts.tl
    /\ liveSounding' = ts.live
    /\ liveParams' = ts.lparams
    /\ calls' = ts.calls
    /\ tlBegunBy' = ts.begunBy
    /\ tlOffsSinceOn' = ts.offs
    /\ paramLog' = ts.plog
    /\ beginLog' = ts.blog
    /\ dispatchedKeys' = ts.keys
    /\ redispatched' = ts.again
    /\ episode' = EpisodeAfter({}, ts.calls)


(***************************************************************************)
(* The playback effect and the transport buttons.                          *)
(***************************************************************************)
\* the body of the playback effect up to setInterval
StartEffect ==
    /\ elapsedMs' = 0
    /\ sessions' = sessions + 1

\* the setInterval callback of the playback effect
Tick(delta) ==
    /\ UNCHANGED seqVars
    /\ isPlaying /\ audioEngine
    /\ LET e == elapsedMs + delta
           eff == EffectiveElapsed(e)
           restart == LoopRestartDetected(e, lastTime)
       IN  /\ e <= MaxElapsedMs
           /\ elapsedMs' = e
           /\ IF ~isLooping /\ e >= LoopDurationMs
              THEN /\ TCommit(EffectCleanup(StopPlaybackNotes(TWork)))
                   /\ isPlaying' = FALSE
                   /\ playbackPosition' = 0
                   /\ lastAction' = [name |-> "tick", degree |-> 0, sweep |-> FALSE]
                   /\ UNCHANGED lastTime
              ELSE /\ TCommit(Prune(ProcessClips(IF restart THEN LoopRestart(TWork) ELSE TWork,
                                                 1, eff)))
                   /\ lastTime' = e
                   /\ playbackPosition' = eff
                   /\ lastAction' = [name |-> "tick", degree |-> 0, sweep |-> restart]
                   /\ UNCHANGED isPlaying
    /\ UNCHANGED <<audioEngine, wasmReady, releaseMode, currentMode, arpSettings, activeButtons,
                   activeNotes, globalMidiNotes, arpSessions, staleTimers, pressedIn,
                   recVars, isLooping, patterns, timeline, sessions>>

\* the Play / Pause button
TogglePlayback ==
    /\ UNCHANGED seqVars
    /\ isPlaying' = ~isPlaying
    /\ IF isPlaying
       THEN /\ playbackPosition' = 0
            /\ TCommit(IF audioEngine THEN EffectCleanup(TWork) ELSE TWork)
            /\ UNCHANGED <<elapsedMs, sessions>>
       ELSE /\ sessions < MaxSessions
            /\ TCommit(IF audioEngine THEN NewScheduledNotes(TWork) ELSE TWork)
            /\ IF audioEngine THEN StartEffect ELSE UNCHANGED <<elapsedMs, sessions>>
            /\ UNCHANGED playbackPosition
    /\ lastAction' = [name |-> "togglePlayback", degree |-> 0, sweep |-> FALSE]
    /\ UNCHANGED <<audioEngine, wasmReady, releaseMode, currentMode, arpSettings, activeButtons,
                   activeNotes, globalMidiNotes, arpSessions, staleTimers, pressedIn,
                   recVars, isLooping, patterns, timeline, lastTime>>

\* the Stop button: stopPlayback, then the effect's cleanup when it was running
StopPlayback ==
    /\ UNCHANGED seqVars
    /\ isPlaying' = FALSE
    /\ playbackPosition' = 0
    /\ TCommit(IF isPlaying /\ audioEngine
               THEN EffectCleanup(StopPlaybackNotes(TWork))
               ELSE StopPlaybackNotes(TWork))
    /\ lastAction' = [name |-> "stopPlayback", degree |-> 0, sweep |-> FALSE]
    /\ UNCHANGED <<audioEngine, wasmReady, releaseMode, currentMode, arpSettings, activeButtons,
                   activeNotes, globalMidiNotes, arpSessions, staleTimers, pressedIn,
                   recVars, isLooping, patterns, timeline, elapsedMs, lastTime, sessions>>

\* the Loop button; the playback effect depends on isLooping
ToggleLoop ==
    /\ UNCHANGED seqVars
    /\ isLooping' = ~isLooping
    /\ IF isPlaying /\ audioEngine
       THEN /\ sessions < MaxSessions
            /\ TCommit(NewScheduledNotes(EffectCleanup(TWork)))
            /\ StartEffect
       ELSE /\ TCommit(TWork)
            /\ UNCHANGED <<elapsedMs, sessions>>
    /\ lastAction' = [name |-> "toggleLoop", degree |-> 0, sweep |-> FALSE]
    /\ UNCHANGED <<audioEngine, wasmReady, releaseMode, currentMode, arpSettings, activeButtons,
                   activeNotes, globalMidiNotes, arpSessions, staleTimers, pressedIn,
                   recVars, isPlaying, patterns, timeline, playbackPosition, lastTime>>

(***************************************************************************)
(* The life cycle of the engine object.                                    *)
(***************************************************************************)
\* WasmAudioEngine.initialize: a new WASM engine, with its initial parameters
InitializeEngine ==
    /\ audioEngine /\ ~wasmReady
    /\ wasmReady' = TRUE
    /\ liveSounding' = {}
    /\ tlSounding' = {}
    /\ liveParams' = PoolParams(Params(0))
    /\ engineParams' = Params(0)
    /\ calls' = <<>>
    /\ lastAction' = [name |-> "initialize", degree |-> 0, sweep |-> FALSE]
    /\ UNCHANGED <<audioEngine, releaseMode, currentMode, arpSettings, activeButtons,
                   activeNotes, globalMidiNotes, arpSessions, staleTimers, episode,
                   pressedIn, recVars, seqVars>>
    /\ UNCHANGED <<isPlaying, isLooping, patterns, timeline, playbackPosition, elapsedMs,
                   lastTime, activeClips, timelineNotes, scheduledNotes,
                   currentParametersClipId, activeClipsWithParams, tlBegunBy,
                   tlOffsSinceOn, paramLog, beginLog,
                   dispatchedKeys, redispatched, sessions>>

\* WasmAudioEngine.dispose: the WASM engine is dropped, and its voices with it
DisposeEngine ==
    /\ audioEngine /\ wasmReady
    /\ wasmReady' = FALSE
    /\ liveSounding' = {}
    /\ tlSounding' = {}
    /\ calls' = <<>>
    /\ lastAction' = [name |-> "dispose", degree |-> 0, sweep |-> FALSE]
    /\ UNCHANGED <<audioEngine, releaseMode, currentMode, arpSettings, activeButtons,
                   activeNotes, globalMidiNotes, arpSessions, staleTimers, liveParams,
                   episode, pressedIn, recVars, seqVars>>
    /\ UNCHANGED <<isPlaying, isLooping, patterns, timeline, playbackPosition, elapsedMs,
                   lastTime, activeClips, timelineNotes, scheduledNotes,
                   currentParametersClipId, activeClipsWithParams, engineParams,
                   tlBegunBy, tlOffsSinceOn, paramLog, beginLog, dispatchedKeys,
                   redispatched,
                   sessions>>

(***************************************************************************)
(* The pattern recorder (PatternRecorder) and the clock.                   *)
(***************************************************************************)
\* performance.now() advances
AdvanceClock ==
    /\ now < MaxNow
    /\ now' = now + 1
    /\ calls' = <<>>
    /\ lastAction' = [name |-> "clock", degree |-> 0, sweep |-> FALSE]
    /\ UNCHANGED <<liveVars, isRecording, recordingStartTime, recordedNotes, tlVars, seqVars>>

\* the ARM RECORDING button, rendered while not recording
EnableRecording ==
    /\ ~isRecording
    /\ isRecording' = TRUE
    /\ recordingStartTime' = 0
    /\ recordedNotes' = <<>>
    /\ calls' = <<>>
    /\ lastAction' = [name |-> "enableRecording", degree |-> 0, sweep |-> FALSE]
    /\ UNCHANGED <<liveVars, now, tlVars, seqVars>>

\* the STOP button, rendered while recording
StopRecording ==
    /\ isRecording
    /\ isRecording' = FALSE
    /\ recordingStartTime' = 0
    /\ calls' = <<>>
    /\ lastAction' = [name |-> "stopRecording", degree |-> 0, sweep |-> FALSE]
    /\ UNCHANGED <<liveVars, now, recordedNotes, tlVars, seqVars>>

\* Math.max(...recordedNotes.map(n => n.time))
LastNoteTime(notes) == MaxOver({notes[i].time : i \in 1 .. Len(notes)})

\* what savePattern gives its caller: the value returned, whether it threw, and whether
\* onPatternCreated was called
ReturnOf(value, threw, created) == [value |-> value, threw |-> threw, created |-> created]
NoReturn == ReturnOf("none", FALSE, FALSE)

\* a variant of the pattern that stores the default configuration, not a snapshot
NewPatternDefaults(notes, config) ==
    [notes |-> notes, length |-> LastNoteTime(notes) + 500, capturedParameters |-> 0]

\* the pattern savePattern builds; length in ms (lastNoteTime / 1000 + 0.5 s)
NewPattern(notes, config) ==
    [notes |-> notes, length |-> LastNoteTime(notes) + 500, capturedParameters |-> config]

\* savePattern; its button is rendered while not recording, the test of the buffer is
\* the handler's own
SavePattern ==
    /\ ~isRecording
    /\ IF Len(recordedNotes) = 0
       THEN /\ saveReturn' = ReturnOf("undefined", FALSE, FALSE)
            /\ UNCHANGED <<savedPatterns, recordedNotes>>
       ELSE /\ Len(savedPatterns) < MaxSaved
            /\ savedPatterns' = Append(savedPatterns, NewPattern(recordedNotes, synthesis))
            /\ recordedNotes' = <<>>
            /\ saveReturn' = ReturnOf("undefined", FALSE, TRUE)
    /\ calls' = <<>>
    /\ lastAction' = [name |-> "savePattern", degree |-> 0, sweep |-> FALSE]
    /\ UNCHANGED <<liveVars, now, isRecording, recordingStartTime, tlVars, synthesis, presetTimers,
                   dragVars>>

\* the discard button, rendered while not recording with a non-empty buffer
DiscardRecording ==
    /\ ~isRecording /\ Len(recordedNotes) > 0
    /\ recordedNotes' = <<>>
    /\ calls' = <<>>
    /\ lastAction' = [name |-> "discardRecording", degree |-> 0, sweep |-> FALSE]
    /\ UNCHANGED <<liveVars, now, isRecording, recordingStartTime, tlVars, seqVars>>

SynthesisVersions == {0, 1}

\* a control of the synthesis or effects panel changes the store's configuration
SetSynthesis(v) ==
    /\ v # synthesis
    /\ synthesis' = v
    /\ calls' = <<>>
    /\ lastAction' = [name |-> "setSynthesis", degree |-> 0, sweep |-> FALSE]
    /\ UNCHANGED <<liveVars, recVars, tlVars, savedPatterns, presetTimers, saveReturn,
                   dragVars>>

(***************************************************************************)
(* The artist preset selector.                                             *)
(***************************************************************************)
\* WasmAudioEngine.stopAllNotes: note_off of the WASM engine for every MIDI note;
\* notes lists the pitches the buttons can play
StopAllNotes(notes) ==
    IF wasmReady
    THEN /\ liveSounding' = {}
         /\ calls' = [i \in 1 .. Len(notes) |->
                         Call("live", "noteOff", notes[i], FALSE, "stopAllNotes", 0)]
    ELSE /\ calls' = <<>>
         /\ UNCHANGED liveSounding

\* applyPreset: a click on a preset card
ApplyPreset ==
    /\ audioEngine
    /\ presetTimers < MaxPresetTimers
    /\ StopAllNotes(SetToSeq(AllNotes \ {Undef}))
    /\ episode' = EpisodeAfter({}, calls')
    /\ presetTimers' = presetTimers + 1
    /\ lastAction' = [name |-> "applyPreset", degree |-> 0, sweep |-> FALSE]
    /\ UNCHANGED <<audioEngine, wasmReady, releaseMode, currentMode, arpSettings, activeButtons,
                   activeNotes, globalMidiNotes, arpSessions, staleTimers, liveParams,
                   pressedIn, recVars, tlVars, savedPatterns, synthesis, saveReturn, dragVars>>

\* applyPresetInternal, 10 ms later: the preset becomes the store's configuration (v)
\* and is set on the engine
ApplyPresetInternal(v) ==
    /\ presetTimers > 0
    /\ presetTimers' = presetTimers - 1
    /\ IF audioEngine
       THEN /\ synthesis' = v
            /\ TCommit(SetParameters(TWork, 0))
       ELSE /\ TCommit(TWork)
            /\ UNCHANGED synthesis
    /\ lastAction' = [name |-> "applyPresetInternal", degree |-> 0, sweep |-> FALSE]
    /\ UNCHANGED <<audioEngine, wasmReady, releaseMode, currentMode, arpSettings, activeButtons,
                   activeNotes, globalMidiNotes, arpSessions, staleTimers, pressedIn, recVars,
                   isPlaying, isLooping, patterns, timeline, playbackPosition, elapsedMs,
                   lastTime, sessions, savedPatterns, saveReturn, dragVars>>

(***************************************************************************)
(* The pattern list and the clips of the Timeline component.               *)
(***************************************************************************)
EditUnchanged ==
    /\ calls' = <<>>
    /\ UNCHANGED <<liveVars, recVars, savedPatterns, synthesis, presetTimers, saveReturn,
                   isPlaying,
                   isLooping, playbackPosition, elapsedMs, lastTime, activeClips,
                   timelineNotes, scheduledNotes, currentParametersClipId,
                   activeClipsWithParams, engineParams, tlSounding, tlBegunBy,
                   tlOffsSinceOn, paramLog, beginLog,
                   dispatchedKeys, redispatched, sessions>>

\* a pattern is appended to sequencer.patterns (savePattern, the progression
\* generator); its id is made from Date.now()
AddPattern ==
    /\ dragging = "none"
    /\ dateNow <= MaxDateNow
    /\ patterns' = patterns \cup {dateNow}
    /\ dateNow' = dateNow + 1
    /\ lastAction' = [name |-> "addPattern", degree |-> 0, sweep |-> FALSE]
    /\ EditUnchanged
    /\ UNCHANGED <<timeline, draggedPattern, draggedClip, dragging>>

\* handlePatternDragStart
PatternDragStart(p) ==
    /\ dragging = "none"
    /\ p \in patterns
    /\ draggedPattern' = p
    /\ dragging' = "pattern"
    /\ lastAction' = [name |-> "patternDragStart", degree |-> 0, sweep |-> FALSE]
    /\ EditUnchanged
    /\ UNCHANGED <<patterns, timeline, draggedClip, dateNow>>

\* handleClipDragStart
ClipDragStart(i) ==
    /\ dragging = "none"
    /\ i \in 1 .. Len(timeline)
    /\ draggedClip' = timeline[i].id
    /\ dragging' = "clip"
    /\ lastAction' = [name |-> "clipDragStart", degree |-> 0, sweep |-> FALSE]
    /\ EditUnchanged
    /\ UNCHANGED <<patterns, timeline, draggedPattern, dateNow>>

\* the dragend event: the clip element's onDragEnd; the pattern element has none
DragEnd(dc) == IF dragging = "clip" THEN 0 ELSE dc

\* the drag ends outside the tracks
DragCancel ==
    /\ dragging # "none"
    /\ dragging' = "none"
    /\ draggedClip' = DragEnd(draggedClip)
    /\ lastAction' = [name |-> "dragCancel", degree |-> 0, sweep |-> FALSE]
    /\ EditUnchanged
    /\ UNCHANGED <<patterns, timeline, draggedPattern, dateNow>>

\* timeline.map of the move branch
MoveClip(clips, clipId, startBeat) ==
    [i \in 1 .. Len(clips) |->
        IF clips[i].id = clipId THEN [clips[i] EXCEPT !.startTime = startBeat] ELSE clips[i]]

\* handleTrackDrop, followed by the dragend event of the drag
TrackDrop(startBeat) ==
    /\ dragging # "none"
    /\ dragging' = "none"
    /\ IF draggedPattern # 0
       THEN /\ Len(timeline) < MaxClips /\ dateNow <= MaxDateNow
            /\ timeline' = Append(timeline, Clip(dateNow, draggedPattern, startBeat))
            /\ dateNow' = dateNow + 1
            /\ draggedPattern' = 0
            /\ draggedClip' = DragEnd(draggedClip)
       ELSE IF draggedClip # 0
            THEN /\ timeline' = MoveClip(timeline, draggedClip, startBeat)
                 /\ draggedClip' = 0
                 /\ UNCHANGED <<draggedPattern, dateNow>>
            ELSE /\ draggedClip' = DragEnd(draggedClip)
                 /\ UNCHANGED <<timeline, draggedPattern, dateNow>>
    /\ lastAction' = [name |-> "handleTrackDrop", degree |-> 0, sweep |-> FALSE]
    /\ EditUnchanged
    /\ UNCHANGED patterns

\* removeClip
RemoveClip(i) ==
    /\ dragging = "none"
    /\ i \in 1 .. Len(timeline)
    /\ timeline' = SelectSeq(timeline, LAMBDA c : c.id # timeline[i].id)
    /\ lastAction' = [name |-> "removeClip", degree |-> 0, sweep |-> FALSE]
    /\ EditUnchanged
    /\ UNCHANGED <<patterns, dragVars>>

\* the delete button of a pattern
DeletePattern(p) ==
    /\ dragging = "none"
    /\ p \in patterns
    /\ patterns' = patterns \ {p}
    /\ timeline' = SelectSeq(timeline, LAMBDA c : c.patternId # p)
    /\ lastAction' = [name |-> "deletePattern", degree |-> 0, sweep |-> FALSE]
    /\ EditUnchanged
    /\ UNCHANGED dragVars

(***************************************************************************)
(* Initial states and specifications.                                      *)
(***************************************************************************)
\* the refs and state of ChordButtons and the recorder part of the store
RefsInit ==
    /\ currentMode = "play"
    /\ activeButtons = {}
    /\ activeNotes = EmptyMap
    /\ globalMidiNotes = EmptyMap
    /\ arpSessions = EmptyMap
    /\ staleTimers = <<>>
    /\ liveSounding = {}
    /\ liveParams = PoolParams(Params(0))
    /\ releaseMode = "fixed"
    /\ episode = [p \in AllNotes |-> [seen |-> FALSE, on |-> 0, off |-> 0]]
    /\ pressedIn = EmptyMap
    /\ now = 1
    /\ isRecording = FALSE
    /\ recordingStartTime = 0
    /\ recordedNotes = <<>>
    /\ calls = <<>>
    /\ lastAction = [name |-> "init", degree |-> 0, sweep |-> FALSE]

\* the components mounted with an initialized engine
ButtonsInit ==
    /\ audioEngine = TRUE
    /\ wasmReady = TRUE
    /\ RefsInit

\* the Timeline component and the sequencer part of the store before any pattern exists
PlaybackInit ==
    /\ isPlaying = FALSE
    /\ isLooping = TRUE
    /\ playbackPosition = 0
    /\ elapsedMs = 0
    /\ lastTime = 0
    /\ activeClips = EmptyMap
    /\ timelineNotes = {}
    /\ scheduledNotes = {}
    /\ currentParametersClipId = 0
    /\ activeClipsWithParams = {}
    /\ engineParams = Params(0)
    /\ tlSounding = {}
    /\ tlBegunBy = [p \in TimelinePitches |-> 0]
    /\ tlOffsSinceOn = [p \in TimelinePitches |-> 0]
    /\ paramLog = <<>>
    /\ beginLog = <<>>
    /\ dispatchedKeys = {}
    /\ redispatched = {}
    /\ sessions = 0
    /\ savedPatterns = <<>>
    /\ synthesis = 0
    /\ presetTimers = 0
    /\ saveReturn = NoReturn
    /\ draggedPattern = 0
    /\ draggedClip = 0
    /\ dragging = "none"

\* a session in which the patterns of the library were saved or generated
TimelineInit ==
    /\ PlaybackInit
    /\ patterns = PatternIds
    /\ dateNow = Len(PatternLib) + 1

StartBeats == {0, 1}

\* the timelines handleTrackDrop can build: clip i of the list has id i
Timelines ==
    UNION {{[i \in 1 .. n |-> Clip(i, f[i][1], f[i][2])] :
               f \in [1 .. n -> (1 .. Len(RecordedPatterns)) \X StartBeats]} : n \in 1 .. MaxClips}

TickDeltas == {TickMs, 2 * TickMs}

\* chord buttons in play mode only
InitPlay ==
    /\ ButtonsInit
    /\ TimelineInit
    /\ arpSettings = [pattern |-> "up", octaves |-> 1, gateLt1 |-> TRUE]
    /\ timeline = <<>>

NextPlay ==
    \/ \E d \in Degrees, chord \in Chords : ButtonDown(d, chord, 1)
    \/ \E d \in Degrees : ButtonUp(d)
    \/ ToggleReleaseMode

SpecPlay == InitPlay /\ [][NextPlay]_vars

\* chord buttons in every mode, with the arpeggiator's timers
Init ==
    /\ ButtonsInit
    /\ TimelineInit
    /\ arpSettings \in ArpSettingsSet
    /\ timeline = <<>>

ArpDegrees == 0 .. (NumArpButtons - 1)

Next ==
    \/ \E d \in ArpDegrees, chord \in Chords, pick \in 1 .. (MaxChordLen * MaxOctaves * 2) :
          ButtonDown(d, chord, pick)
    \/ \E d \in ArpDegrees : ButtonUp(d)
    \/ \E d \in ArpDegrees, pick \in 1 .. (MaxChordLen * MaxOctaves * 2) : ArpStep(d, pick)
    \/ \E d \in ArpDegrees : GateOff(d)
    \/ \E i \in 1 .. MaxArpClosures : StaleGateOff(i)
    \/ \E m \in PlaybackModes : SetMode(m)

Spec == Init /\ [][Next]_vars

\* several chord buttons held at once, in play and arpeggiator mode, without recording
InitShared ==
    /\ ButtonsInit
    /\ TimelineInit
    /\ arpSettings = [pattern |-> "up", octaves |-> 1, gateLt1 |-> TRUE]
    /\ timeline = <<>>

SharedDegrees == 0 .. (NumSharedButtons - 1)

NextShared ==
    \/ \E d \in SharedDegrees, chord \in Chords : ButtonDown(d, chord, 1)
    \/ \E d \in SharedDegrees : ButtonUp(d)
    \/ \E d \in SharedDegrees : ArpStep(d, 1)
    \/ \E d \in SharedDegrees : GateOff(d)
    \/ \E i \in 1 .. MaxArpClosures : StaleGateOff(i)
    \/ \E m \in {"play", "arpeggiator"} : SetMode(m)

SpecShared == InitShared /\ [][NextShared]_vars

\* the chords of the first two buttons in C major (root position): I and ii
ButtonChords == <<<<60, 64, 67>>, <<62, 65>>>>

\* the arpeggiator over the chords of the buttons, for every pattern and octave count
InitSeq ==
    /\ ButtonsInit
    /\ TimelineInit
    /\ arpSettings \in {a \in ArpSettingsSet : a.gateLt1 /\ a.pattern # "random"}
    /\ timeline = <<>>

NextSeq ==
    \/ \E d \in 0 .. (Len(ButtonChords) - 1) :
          ButtonDown(d, ButtonChords[d + 1], 1)
    \/ \E d \in 0 .. (Len(ButtonChords) - 1) : ButtonUp(d)
    \/ \E d \in 0 .. (Len(ButtonChords) - 1) : ArpStep(d, 1)
    \/ \E d \in 0 .. (Len(ButtonChords) - 1) : GateOff(d)
    \/ \E i \in 1 .. MaxArpClosures : StaleGateOff(i)
    \/ \E m \in {"play", "arpeggiator"} : SetMode(m)

SpecSeq == InitSeq /\ [][NextSeq]_vars

\* timeline playback
InitTimeline ==
    /\ ButtonsInit
    /\ TimelineInit
    /\ arpSettings = [pattern |-> "up", octaves |-> 1, gateLt1 |-> TRUE]
    /\ timeline \in Timelines

NextTimeline ==
    \/ \E delta \in TickDeltas : Tick(delta)
    \/ TogglePlayback
    \/ StopPlayback
    \/ ToggleLoop

SpecTimeline == InitTimeline /\ [][NextTimeline]_vars

\* timeline playback of one clip of the long recording
InitPrune ==
    /\ ButtonsInit
    /\ TimelineInit
    /\ arpSettings = [pattern |-> "up", octaves |-> 1, gateLt1 |-> TRUE]
    /\ timeline = <<Clip(1, LongPatternId, 0)>>

SpecPrune == InitPrune /\ [][NextTimeline]_vars

\* chord buttons (play and arpeggiator mode) and the pattern recorder
InitRec ==
    /\ ButtonsInit
    /\ TimelineInit
    /\ arpSettings \in {a \in ArpSettingsSet : a.pattern = "up" /\ a.octaves = 1}
    /\ timeline = <<>>

NextRec ==
    \/ /\ \E d \in ArpDegrees, chord \in Chords : ButtonDown(d, chord, 1)
       /\ Len(recordedNotes') <= MaxArpRecorded
    \/ /\ \E d \in ArpDegrees : ButtonUp(d)
       /\ Len(recordedNotes') <= MaxArpRecorded
    \/ /\ \E d \in ArpDegrees : ArpStep(d, 1)
       /\ Len(recordedNotes') <= MaxArpRecorded
    \/ /\ \E d \in ArpDegrees : GateOff(d)
       /\ Len(recordedNotes') <= MaxArpRecorded
    \/ /\ \E i \in 1 .. MaxArpClosures : StaleGateOff(i)
       /\ Len(recordedNotes') <= MaxArpRecorded
    \/ \E m \in {"play", "arpeggiator"} : SetMode(m)
    \/ AdvanceClock
    \/ EnableRecording
    \/ StopRecording

SpecRec == InitRec /\ [][NextRec]_vars

\* play-mode buttons and the whole pattern recorder
NextSave ==
    \/ /\ \E d \in ArpDegrees, chord \in Chords : ButtonDown(d, chord, 1)
       /\ Len(recordedNotes') <= MaxRecorded
    \/ /\ \E d \in ArpDegrees : ButtonUp(d)
       /\ Len(recordedNotes') <= MaxRecorded
    \/ AdvanceClock
    \/ EnableRecording
    \/ StopRecording
    \/ SavePattern
    \/ DiscardRecording
    \/ \E v \in SynthesisVersions : SetSynthesis(v)

SpecSave == InitPlay /\ [][NextSave]_vars

\* the engine prop null, or an engine object before initialize / after dispose
InitEngine ==
    /\ audioEngine \in BOOLEAN
    /\ wasmReady = FALSE
    /\ RefsInit
    /\ TimelineInit
    /\ arpSettings = [pattern |-> "up", octaves |-> 1, gateLt1 |-> TRUE]
    /\ timeline = <<Clip(1, 1, 0)>>

NextEngine ==
    \/ /\ \E d \in ArpDegrees, chord \in Chords : ButtonDown(d, chord, 1)
       /\ Len(recordedNotes') <= MaxRecorded
    \/ /\ \E d \in ArpDegrees : ButtonUp(d)
       /\ Len(recordedNotes') <= MaxRecorded
    \/ Tick(TickMs) /\ elapsedMs' <= MaxEngineElapsedMs
    \/ TogglePlayback
    \/ EnableRecording
    \/ InitializeEngine
    \/ DisposeEngine

SpecEngine == InitEngine /\ [][NextEngine]_vars

\* the timelines left when pattern 2 was deleted while clips may still reference it:
\* no clip at all, or clips of patterns 1 and 2
OrphanTimelines ==
    {<<>>} \cup
    UNION {{[i \in 1 .. n |-> Clip(i, f[i][1], f[i][2])] :
               f \in [1 .. n -> {1, 2} \X StartBeats]} : n \in 1 .. MaxClips}

\* timeline playback of an empty timeline and of clips whose pattern is gone
InitOrphan ==
    /\ ButtonsInit
    /\ PlaybackInit
    /\ arpSettings = [pattern |-> "up", octaves |-> 1, gateLt1 |-> TRUE]
    /\ patterns = PatternIds \ {2}
    /\ dateNow = Len(PatternLib) + 1
    /\ timeline \in OrphanTimelines

SpecOrphan == InitOrphan /\ [][NextTimeline]_vars

\* the timelines of clips of a recording (pattern 1) and of the pattern generated from
\* an artist preset
PresetTimelines ==
    UNION {{[i \in 1 .. n |-> Clip(i, f[i][1], f[i][2])] :
               f \in [1 .. n -> {1, ArtistPatternId} \X StartBeats]} : n \in 1 .. MaxClips}

\* timeline playback of recorded and generated patterns
InitPreset ==
    /\ ButtonsInit
    /\ TimelineInit
    /\ arpSettings = [pattern |-> "up", octaves |-> 1, gateLt1 |-> TRUE]
    /\ timeline \in PresetTimelines

SpecPreset == InitPreset /\ [][NextTimeline]_vars

\* chord buttons, the artist preset selector and the transport of a one-clip timeline
InitApply ==
    /\ ButtonsInit
    /\ TimelineInit
    /\ arpSettings = [pattern |-> "up", octaves |-> 1, gateLt1 |-> TRUE]
    /\ timeline = <<Clip(1, 1, 0)>>

NextApply ==
    \/ \E d \in ArpDegrees, chord \in Chords : ButtonDown(d, chord, 1)
    \/ \E d \in ArpDegrees : ButtonUp(d)
    \/ \E d \in ArpDegrees : ArpStep(d, 1)
    \/ \E d \in ArpDegrees : GateOff(d)
    \/ \E m \in {"play", "arpeggiator"} : SetMode(m)
    \/ ApplyPreset
    \/ ApplyPresetInternal(1)
    \/ TogglePlayback /\ sessions' <= MaxApplySessions
    \/ Tick(TickMs) /\ elapsedMs' <= MaxApplyElapsedMs
    \/ StopPlayback

SpecApply == InitApply /\ [][NextApply]_vars

\* a play-mode performance on buttons that may share pitches, recorded from an arming
\* with no button held
NextReplay ==
    \/ /\ \E d \in 0 .. (NumSharedButtons - 1), chord \in Chords : ButtonDown(d, chord, 1)
       /\ Len(recordedNotes') <= MaxRecorded
    \/ /\ \E d \in 0 .. (NumSharedButtons - 1) : ButtonUp(d)
       /\ Len(recordedNotes') <= MaxRecorded
    \/ AdvanceClock
    \/ EnableRecording /\ activeButtons = {}
    \/ StopRecording

SpecReplay == InitPlay /\ [][NextReplay]_vars

\* editing the pattern list and the timeline, from the store's initial state
InitEdit ==
    /\ ButtonsInit
    /\ PlaybackInit
    /\ arpSettings = [pattern |-> "up", octaves |-> 1, gateLt1 |-> TRUE]
    /\ patterns = {}
    /\ timeline = <<>>
    /\ dateNow = 1

NextEdit ==
    \/ AddPattern
    \/ \E p \in 1 .. MaxDateNow : PatternDragStart(p)
    \/ \E i \in 1 .. MaxClips : ClipDragStart(i)
    \/ DragCancel
    \/ \E startBeat \in StartBeats : TrackDrop(startBeat)
    \/ \E i \in 1 .. MaxClips : RemoveClip(i)
    \/ \E p \in 1 .. MaxDateNow : DeletePattern(p)

SpecEdit == InitEdit /\ [][NextEdit]_vars

(***************************************************************************)
(* Properties of the chord buttons in play mode (SpecPlay).                *)
(***************************************************************************)

\* C1: in play mode, from the first press of a button whose chord contains pitch p to
\* the release of the last such button, the live pool receives exactly one noteOn(p)
\* and exactly one noteOff(p): while a holder remains one noteOn and no noteOff were
\* issued, once the last holder let go one noteOn and one noteOff.
C1_OneOnOneOff ==
    \A p \in PitchSet :
        episode[p].seen =>
            IF HeldWith(p) # {}
            THEN episode[p].on = 1 /\ episode[p].off = 0
            ELSE episode[p].on = 1 /\ episode[p].off = 1

\* buttons sharing pitch p overlapped: one of them was just released without any
\* engine call, two still hold p, and p was switched on once
C1_Witness ==
    \E p \in PitchSet :
        /\ Cardinality(HeldWith(p)) = 2
        /\ lastAction.name = "handleButtonUp"
        /\ episode[p].seen /\ episode[p].on = 1 /\ episode[p].off = 0
        /\ p \in liveSounding
        /\ calls = <<>>

NoteOnCalled(p) == CountCalls(calls', "live", "noteOn", p) > 0
NoteOffCalled(p) == CountCalls(calls', "live", "noteOff", p) > 0

\* C2: handleButtonDown calls noteOn(p) exactly on the steps where the holder set of p
\* goes from absent (empty) to non-empty and never calls noteOff; handleButtonUp calls
\* noteOff(p) exactly on the steps where the holder set of p goes from non-empty to
\* empty, dropping the entry, and never calls noteOn; no stored holder set is empty.
C2_Step ==
    /\ \A p \in DOMAIN globalMidiNotes' : globalMidiNotes'[p] # {}
    /\ lastAction'.name = "handleButtonDown" =>
          \A p \in AllNotes :
             /\ NoteOnCalled(p) <=> (~MapHas(globalMidiNotes, p) /\ MapHas(globalMidiNotes', p))
             /\ ~NoteOffCalled(p)
             /\ CountCalls(calls', "live", "noteOn", p) <= 1
    /\ lastAction'.name = "handleButtonUp" =>
          \A p \in AllNotes :
             /\ NoteOffCalled(p) <=> (MapHas(globalMidiNotes, p) /\ ~MapHas(globalMidiNotes', p))
             /\ ~NoteOnCalled(p)
             /\ CountCalls(calls', "live", "noteOff", p) <= 1

C2_Transitions == [][C2_Step]_vars

\* a button was released while another still holds one of its pitches: no noteOff for
\* that pitch, a noteOff for the pitch it held alone
C2_Witness ==
    /\ lastAction.name = "handleButtonUp"
    /\ Len(calls) = 1
    /\ calls[1].op = "noteOff"
    /\ ~MapHas(globalMidiNotes, calls[1].note)
    /\ \E p \in DOMAIN globalMidiNotes : p # calls[1].note /\ globalMidiNotes[p] # {}

(***************************************************************************)
(* Properties of timeline playback (SpecTimeline).                         *)
(***************************************************************************)
ClipById(id) == CHOOSE c \in Range(timeline) : c.id = id

TimelineOffs(cs, p) == CountCalls(cs, "timeline", "noteOff", p)

\* a step of the setInterval callback
IsTickStep == lastAction'.name = "tick" /\ elapsedMs' # elapsedMs

\* C3: every Begin of a pitch dispatched by a clip is ended by exactly one
\* timelineNoteOff (its own End, the force-stop at the clip's deactivation or the loop
\* restart), also when overlapping clips share the pitch: no Begin is answered by more
\* than one timelineNoteOff, and as long as the pitch sounds playback runs and the clip
\* that began it still tracks the pitch, so that one of the three will end it.
C3_BeginEndedOnce ==
    \A p \in TimelinePitches :
        /\ tlOffsSinceOn[p] <= 1
        /\ p \in tlSounding =>
              /\ isPlaying
              /\ MapHas(activeClips, tlBegunBy[p])
              /\ p \in activeClips[tlBegunBy[p]]

\* C4: after every completed tick every pitch sounding in the timeline pool was begun
\* by a clip that is inside its active window at the tick's position.
C4_SoundingInsideWindow ==
    lastAction.name = "tick" =>
        \A p \in tlSounding :
            /\ tlBegunBy[p] \in {timeline[i].id : i \in 1 .. Len(timeline)}
            /\ IsClipPlaying(ClipById(tlBegunBy[p]), EffectiveElapsed(elapsedMs))

\* C5: while playback is not running no pitch sounds in the timeline pool, and
\* activeClips, the sounding tracking and the owner of the parameter context are empty.
C5_HaltSilences ==
    ~isPlaying =>
        /\ tlSounding = {}
        /\ activeClips = EmptyMap
        /\ timelineNotes = {}
        /\ currentParametersClipId = 0

\* C6: within a tick all deactivations precede all dispatches, so no pitch whose Begin
\* was dispatched in a tick is force-stopped by the deactivation sweep of another clip
\* later in the same tick.
C6_DeactivationsFirst ==
    lastAction.name = "tick" =>
        \A i, j \in 1 .. Len(calls) :
            (i < j /\ calls[j].why = "deactivate") =>
                calls[i].why \notin {"begin", "retrigger", "end"}

\* C9: with looping on and a positive loop duration the reset sweep runs on exactly
\* the ticks on which floor(elapsed / loopDurationMs) is larger than at the preceding
\* tick of the play session (0 at its start): it sends timelineNoteOff for every pitch
\* tracked by an active clip and clears the dispatched keys, activeClips and the owner of
\* the parameter context, so that after the tick these hold only what the tick itself
\* dispatched and activated; no other tick sweeps.
C9_Step ==
    IsTickStep =>
        LET crossed == /\ isLooping /\ LoopDurationMs > 0
                       /\ (elapsedMs' \div LoopDurationMs) > (elapsedMs \div LoopDurationMs)
            eff == EffectiveElapsed(elapsedMs')
        IN  /\ lastAction'.sweep <=> crossed
            /\ crossed =>
                  /\ \A c \in DOMAIN activeClips : \A p \in activeClips[c] :
                        \E i \in 1 .. Len(calls') :
                           /\ calls'[i] = Call("timeline", "noteOff", p, FALSE, "loopRestart", c)
                           /\ \A j \in 1 .. (i - 1) : calls'[j].why = "loopRestart"
                  /\ \A k \in scheduledNotes' :
                        \E i \in 1 .. Len(timeline) :
                           /\ timeline[i].id = k[1]
                           /\ IsClipPlaying(timeline[i], eff)
                           /\ InTolerance(eff - ClipStartMs(timeline[i]), k[2])
                  /\ \A c \in DOMAIN activeClips' : IsClipPlaying(ClipById(c), eff)
                  /\ currentParametersClipId' # 0 =>
                        IsClipPlaying(ClipById(currentParametersClipId'), eff)
            /\ ~crossed => \A i \in 1 .. Len(calls') : calls'[i].why # "loopRestart"

C9_RestartSweep == [][C9_Step]_vars

\* in a second play session the loop wrapped and the sweep stopped a tracked pitch
C9_Witness ==
    /\ sessions = 2
    /\ lastAction.name = "tick" /\ lastAction.sweep
    /\ isLooping
    /\ \E i \in 1 .. Len(calls) : calls[i].why = "loopRestart"

\* C10: on the tick on which a clip of activeClips is no longer inside its window,
\* every pitch tracked for the clip receives timelineNoteOff and the clip's entry is
\* removed from activeClips.
C10_Step ==
    IsTickStep =>
        \A c \in DOMAIN activeClips :
            ~IsClipPlaying(ClipById(c), EffectiveElapsed(elapsedMs')) =>
                /\ ~MapHas(activeClips', c)
                /\ \A p \in activeClips[c] : TimelineOffs(calls', p) > 0

C10_DeactivationStops == [][C10_Step]_vars

(***************************************************************************)
(* Properties of the arpeggiator (Spec).                                   *)
(***************************************************************************)

\* C7: a button-up of a button with an arpeggiator session, whatever the gate, leaves
\* no gate-off timeout of the session pending, issues an immediate noteOff for the
\* pitch the session is sounding, and leaves that pitch silent.
C7_Step ==
    (lastAction'.name = "handleButtonUp" /\ MapHas(arpSessions, lastAction'.degree)
       /\ ~MapHas(arpSessions', lastAction'.degree)) =>
        LET sess == arpSessions[lastAction'.degree]
        IN  /\ staleTimers' = staleTimers
            /\ sess.cur # NoNote =>
                  /\ \E i \in 1 .. Len(calls') :
                        calls'[i] = Call("live", "noteOff", sess.cur, TRUE, "release", 0)
                  /\ sess.cur \notin liveSounding'

C7_ArpRelease == [][C7_Step]_vars

\* C8: the gate-off timeout of an arpeggiator session issues no engine call once the
\* session's button was released (the timeout of an earlier step is cleared by the
\* next step), so it cannot stop a pitch sounded by a later session of the button.
C8_StaleTimerSilent ==
    lastAction.name = "staleGateTimeout" => calls = <<>>

(***************************************************************************)
(* Properties of the parameter context (SpecTimeline).                     *)
(***************************************************************************)

\* C11: a first-seen activation applies the pattern's captured parameters and makes the
\* clip the owner of the parameter context only when no clip owns the context; while
\* another clip owns it, an activation changes neither the engine parameters nor the
\* owner.
C11_OwnerKept ==
    \A i \in 1 .. Len(paramLog) :
        paramLog[i].op = "activate" =>
            IF paramLog[i].ownerBefore = 0
            THEN /\ paramLog[i].ownerAfter = paramLog[i].clip
                 /\ paramLog[i].paramsAfter = Params(paramLog[i].pattern)
            ELSE /\ paramLog[i].ownerAfter = paramLog[i].ownerBefore
                 /\ paramLog[i].paramsAfter = paramLog[i].paramsBefore

\* C12: the deactivation of the clip that owns the parameter context re-applies the
\* store's parameters to the engine and clears the owner; the deactivation of any
\* other clip changes neither the engine parameters nor the owner.
C12_RestoreOnOwnerDeactivation ==
    \A i \in 1 .. Len(paramLog) :
        paramLog[i].op = "deactivate" =>
            IF paramLog[i].ownerBefore = paramLog[i].clip
            THEN paramLog[i].ownerAfter = 0 /\ paramLog[i].paramsAfter = Params(0)
            ELSE /\ paramLog[i].ownerAfter = paramLog[i].ownerBefore
                 /\ paramLog[i].paramsAfter = paramLog[i].paramsBefore

(***************************************************************************)
(* Properties of the dispatch (SpecTimeline, SpecPrune).                   *)
(***************************************************************************)

\* C13: between two loop restarts, or from play start, no key (clip, event time, pitch,
\* kind) is dispatched more than once, whatever the number of events of the placed
\* patterns: pruning the key set never makes a key be dispatched again.
C13_DispatchOnce == redispatched = {}


\* C14: with ticks less than the tolerance apart, every event of a placed clip whose
\* time is below the pattern length is dispatched during each pass of the playhead
\* through the clip's window, on a tick whose time relative to the clip start differs
\* from the event time by less than the tolerance: once a tick has brought the relative
\* time to event time + tolerance or beyond, the event's key has been dispatched in
\* this iteration, and every key a tick dispatches is within the tolerance on that tick.
C14_Step ==
    IsTickStep /\ isPlaying' =>
        /\ \A k \in dispatchedKeys' \ (IF lastAction'.sweep THEN {} ELSE dispatchedKeys) :
              InTolerance(playbackPosition' - ClipStartMs(ClipById(k[1])), k[2])
        /\ \A i \in 1 .. Len(timeline) :
              \A j \in 1 .. Len(PatternLib[timeline[i].patternId].notes) :
                 LET clip == timeline[i]
                     note == PatternLib[clip.patternId].notes[j]
                     relativeTimeMs == playbackPosition' - ClipStartMs(clip)
                 IN  (/\ note.time < PatternLib[clip.patternId].length
                      /\ relativeTimeMs >= note.time + ToleranceMs)
                         => NoteKey(clip, note) \in dispatchedKeys'

C14_EveryEventDispatched == [][C14_Step]_vars

(***************************************************************************)
(* Properties of the chord buttons while recording (SpecRec).              *)
(***************************************************************************)
\* the degree of the handler that just ran is in some holder set before the step
InSomeHolderSet(degree) ==
    \E p \in DOMAIN globalMidiNotes : degree \in globalMidiNotes[p]

\* C15: a button-up for a degree that is in no holder set (a second button-up with no
\* button-down in between included) issues no engine noteOff, changes no holder set
\* and appends no recording event.
C15_Step ==
    (lastAction'.name = "handleButtonUp" /\ ~InSomeHolderSet(lastAction'.degree)) =>
        /\ \A i \in 1 .. Len(calls') : calls'[i].op # "noteOff"
        /\ globalMidiNotes' = globalMidiNotes
        /\ recordedNotes' = recordedNotes

C15_AbsentReleaseNoOp == [][C15_Step]_vars

\* a handler of the chord buttons received a note event: a press of a free button, a
\* release of a held one, an arpeggiator step or a gate-off that stopped a note
IsNoteEventStep ==
    \/ lastAction'.name = "handleButtonDown" /\ activeButtons' # activeButtons
    \/ lastAction'.name = "handleButtonUp" /\ activeButtons' # activeButtons
    \/ lastAction'.name = "playNote"
    \/ lastAction'.name \in {"gateTimeout", "staleGateTimeout"} /\ calls' # <<>>

\* the events a step appended to the buffer (all of them when the step started it anew)
Appended ==
    IF Len(recordedNotes') >= Len(recordedNotes)
       /\ SubSeq(recordedNotes', 1, Len(recordedNotes)) = recordedNotes
    THEN SubSeq(recordedNotes', Len(recordedNotes) + 1, Len(recordedNotes'))
    ELSE recordedNotes'

\* C16: after arming, the first note event received sets recordingStartTime to its
\* timestamp and is recorded with time 0; every event recorded later in the same arming
\* at timestamp t has time t - recordingStartTime, whatever handler produced it; the
\* first element of a non-empty buffer has time 0.
C16_Step ==
    /\ recordedNotes' # <<>> => recordedNotes'[1].time = 0
    /\ (isRecording /\ isRecording' /\ IsNoteEventStep) =>
          IF recordingStartTime = 0
          THEN /\ recordingStartTime' = now
               /\ recordedNotes' # <<>>
               /\ \A i \in 1 .. Len(recordedNotes') : recordedNotes'[i].time = 0
          ELSE /\ recordingStartTime' = recordingStartTime
               /\ Len(recordedNotes') >= Len(recordedNotes)
               /\ SubSeq(recordedNotes', 1, Len(recordedNotes)) = recordedNotes
               /\ \A i \in 1 .. Len(Appended) : Appended[i].time = now - recordingStartTime

C16_RelativeTimes == [][C16_Step]_vars

\* a step of the arpeggiator: the press or release of an arpeggiator button, a step of
\* its interval, or one of its gate-off timeouts
IsArpStep ==
    \/ /\ lastAction'.name = "handleButtonDown" /\ activeButtons' # activeButtons
       /\ pressedIn'[lastAction'.degree] = "arpeggiator"
    \/ /\ lastAction'.name = "handleButtonUp" /\ activeButtons' # activeButtons
       /\ pressedIn[lastAction'.degree] = "arpeggiator"
    \/ lastAction'.name \in {"playNote", "gateTimeout", "staleGateTimeout"}

RecordedAs(type, midiNote) ==
    \E i \in 1 .. Len(Appended) :
        /\ Appended[i].type = type
        /\ Appended[i].midiNote = midiNote
        /\ Appended[i].time = now - recordingStartTime'

\* C17: while recording is armed, every note-on and every note stop of the arpeggiator
\* (gate-off timeout, force-stop at the next step, force-stop at button-up) is appended
\* to the buffer as a noteOn / noteOff event with time = timestamp - recordingStartTime,
\* so that every recorded noteOn of the arpeggiator gets a recorded noteOff.
C17_Step ==
    (isRecording /\ IsArpStep) =>
        \A i \in 1 .. Len(calls') :
            calls'[i].pool = "live" => RecordedAs(calls'[i].op, calls'[i].note)

C17_ArpStopsRecorded == [][C17_Step]_vars

(***************************************************************************)
(* Properties of the pattern recorder (SpecSave).                          *)
(***************************************************************************)
IsSaveStep == lastAction'.name = "savePattern"

\* C18: savePattern on a non-empty buffer appends exactly one pattern whose notes are
\* the buffer's events in order, whose length is the largest event time + 500 ms and
\* whose capturedParameters are the configuration at save time, and empties the buffer;
\* no other step (a change of the configuration, a change of the buffer) changes a
\* saved pattern.
C18_Step ==
    /\ (IsSaveStep /\ recordedNotes # <<>>) =>
          /\ Len(savedPatterns') = Len(savedPatterns) + 1
          /\ SubSeq(savedPatterns', 1, Len(savedPatterns)) = savedPatterns
          /\ savedPatterns'[Len(savedPatterns')].notes = recordedNotes
          /\ \A i \in 1 .. Len(recordedNotes) :
                recordedNotes[i].time + 500 <= savedPatterns'[Len(savedPatterns')].length
          /\ \E i \in 1 .. Len(recordedNotes) :
                recordedNotes[i].time + 500 = savedPatterns'[Len(savedPatterns')].length
          /\ savedPatterns'[Len(savedPatterns')].capturedParameters = synthesis
          /\ recordedNotes' = <<>>
    /\ ~IsSaveStep => savedPatterns' = savedPatterns

C18_SaveAppendsSnapshot == [][C18_Step]_vars

\* a pattern of two events at different times was saved; since then the configuration
\* was changed and a new recording has filled the buffer
C18_Witness ==
    /\ Len(savedPatterns) = 1
    /\ Len(savedPatterns[1].notes) = 2
    /\ savedPatterns[1].notes[1].time = 0 /\ savedPatterns[1].notes[2].time = 1
    /\ savedPatterns[1].length = 501
    /\ savedPatterns[1].capturedParameters # synthesis
    /\ recordedNotes # <<>>
    /\ recordedNotes # savedPatterns[1].notes

\* the caller of savePattern can tell that the call failed: it threw, or it returned
\* something other than what a successful call returns
FailureReported(ret) == ret.threw \/ ret.value # "undefined"

\* C19: savePattern on an empty buffer fails: it creates no pattern, reports the failure
\* to its caller, and leaves the buffer, the armed flag and the patterns unchanged.
C19_Step ==
    (IsSaveStep /\ recordedNotes = <<>>) =>
        /\ savedPatterns' = savedPatterns
        /\ recordedNotes' = recordedNotes
        /\ isRecording' = isRecording
        /\ ~saveReturn'.created
        /\ FailureReported(saveReturn')

C19_EmptySaveFails == [][C19_Step]_vars

(***************************************************************************)
(* Properties of the pattern list and the clips (SpecEdit).                *)
(***************************************************************************)

\* C20: after any sequence of pattern additions, clip creations, moves and removals and
\* pattern deletions, every clip of the timeline references a pattern that exists, and
\* deleting a pattern removes the clips that reference it and no other clip.
C20_Step ==
    /\ \A i \in 1 .. Len(timeline') : timeline'[i].patternId \in patterns'
    /\ lastAction'.name = "deletePattern" =>
          \E p \in patterns :
             /\ patterns' = patterns \ {p}
             /\ timeline' = SelectSeq(timeline, LAMBDA c : c.patternId # p)

C20_ClipsReferencePatterns == [][C20_Step]_vars

(***************************************************************************)
(* Properties of playback with missing patterns (SpecOrphan).              *)
(***************************************************************************)
PlacedWithPattern == {i \in 1 .. Len(timeline) : HasPattern(timeline[i])}

\* the loop length the playback effect is expected to use
ExpectedLoopDurationMs ==
    IF PlacedWithPattern = {} THEN TotalBeats * BeatDuration
    ELSE MaxOver({ClipEndMs(timeline[i]) : i \in PlacedWithPattern})

\* C21: the loop duration of the playback effect is the largest end (start + pattern
\* length, in ms) over the placed clips whose pattern exists, and the default length
\* (totalBeats in ms) when there is none; so a one-shot playback of an empty timeline
\* is not stopped by its first tick and a looping one has a non-zero loop length.
C21_Step ==
    /\ isPlaying' => LoopDurationMs = ExpectedLoopDurationMs
    /\ isPlaying' /\ isLooping' => LoopDurationMs > 0
    /\ (IsTickStep /\ ~isLooping /\ elapsedMs' < ExpectedLoopDurationMs) => isPlaying'

C21_LoopDuration == [][C21_Step]_vars

(***************************************************************************)
(* Properties of several held buttons (SpecShared).                        *)
(***************************************************************************)
LiveNoteOffIssued(p) ==
    \E i \in 1 .. Len(calls') :
        calls'[i].pool = "live" /\ calls'[i].op = "noteOff" /\ calls'[i].note = p

\* C22: while a pitch is the current sounding pitch of a held arpeggiator session, an
\* engine noteOff for it is issued only by that session (its next step, its gate
\* timeout or its release), not by a step or release of another session and not by
\* the release of a play-mode button.
C22_Step ==
    \A d \in DOMAIN arpSessions :
        (arpSessions[d].cur # NoNote /\ LiveNoteOffIssued(arpSessions[d].cur)) =>
            /\ lastAction'.degree = d
            /\ lastAction'.name \in {"playNote", "gateTimeout", "handleButtonUp"}

C22_SessionOwnsItsPitch == [][C22_Step]_vars

(***************************************************************************)
(* Properties of the arpeggiator sequence (SpecSeq).                       *)
(***************************************************************************)
\* the reference sequence: the chord repeated octaves times, each copy 12 semitones
\* above the one before
RECURSIVE Expanded(_, _)
Expanded(chord, octaves) ==
    IF octaves = 0 THEN <<>>
    ELSE Expanded(chord, octaves - 1)
         \o [i \in 1 .. Len(chord) |-> chord[i] + (octaves - 1) * 12]

ReferenceSequence(chord, pattern, octaves) ==
    LET expanded == Expanded(chord, octaves)
        m == Len(expanded)
        reversed == [i \in 1 .. m |-> expanded[m + 1 - i]]
    IN  CASE pattern = "up" -> expanded
          [] pattern = "down" -> reversed
          [] pattern = "updown" -> expanded \o SubSeq(reversed, 2, m - 1)

LiveNoteOns == SelectSeq(calls', LAMBDA c : c.pool = "live" /\ c.op = "noteOn")

\* C23: for a chord of at least two pitches and any number of octaves the sequence of an
\* arpeggiator session is the reference sequence for its pattern (up, down, updown of
\* length 2m - 2), and the steps play it cyclically from its first element.
C23_Step ==
    \A d \in DOMAIN arpSessions' :
        (arpSessions'[d].running /\ arpSessions'[d].pattern # "random") =>
            LET ref == ReferenceSequence(ButtonChords[d + 1], arpSessions'[d].pattern,
                                         arpSettings.octaves)
            IN  /\ arpSessions'[d].notes = ref
                /\ arpSessions'[d].pattern = "updown" => Len(ref) = 2 * Len(Expanded(ButtonChords[d + 1], arpSettings.octaves)) - 2
                /\ (lastAction'.name = "handleButtonDown" /\ lastAction'.degree = d
                       /\ d \notin DOMAIN arpSessions) =>
                      /\ Len(LiveNoteOns) = 1
                      /\ LiveNoteOns[1].note = ref[1]
                      /\ arpSessions'[d].idx = 1 % Len(ref)
                /\ (lastAction'.name = "playNote" /\ lastAction'.degree = d) =>
                      /\ Len(LiveNoteOns) = 1
                      /\ LiveNoteOns[1].note = ref[arpSessions[d].idx + 1]
                      /\ arpSessions'[d].idx = (arpSessions[d].idx + 1) % Len(ref)

C23_ArpSequence == [][C23_Step]_vars

\* chord [60, 64, 67], one octave, updown: the session holds [60, 64, 67, 64] and a
\* step has just wrapped around to play 60 again
C23_Witness ==
    /\ 0 \in DOMAIN arpSessions
    /\ arpSettings.octaves = 1
    /\ arpSessions[0].pattern = "updown"
    /\ arpSessions[0].notes = <<60, 64, 67, 64>>
    /\ lastAction.name = "playNote" /\ lastAction.degree = 0
    /\ arpSessions[0].cur = 60 /\ arpSessions[0].idx = 1

(***************************************************************************)
(* C24: the Release Mode setting decides how a play-mode button release    *)
(* ends its notes: every live noteOff that a button-up issues in play mode *)
(* is immediate exactly when releaseMode is 'immediate' (and uses the ADSR *)
(* release when it is 'fixed').                                            *)
(***************************************************************************)
C24_Step ==
    (lastAction'.name = "handleButtonUp" /\ currentMode = "play") =>
        \A i \in 1 .. Len(calls') :
            (calls'[i].pool = "live" /\ calls'[i].op = "noteOff") =>
                calls'[i].imm = (releaseMode = "immediate")

C24_ReleaseModeDecides == [][C24_Step]_vars

(***************************************************************************)
(* C25: applying a clip's captured parameters on its activation, and       *)
(* restoring parameters on its deactivation, changes only the timeline     *)
(* pool's parameters; the live pool's parameters stay those of the global  *)
(* configuration (0) throughout timeline playback.                         *)
(***************************************************************************)
C25_Step ==
    /\ paramLog' # <<>> => liveParams'.params = liveParams.params
    /\ isPlaying' => liveParams'.params = Params(0)

C25_LivePoolKeepsGlobal == [][C25_Step]_vars

\* the placed clips whose patternId matches no existing pattern
OrphanClips == {i \in 1 .. Len(timeline) : timeline[i].patternId \notin patterns}

(***************************************************************************)
(* C26: a clip whose patternId matches no existing pattern is skipped on   *)
(* every tick and in the loop-duration computation: no engine call is made *)
(* on its behalf, it gets no activeClips entry, it never owns the          *)
(* parameter context, the loop duration is that of the other clips, and    *)
(* the other clips of the same tick are processed (activated inside their  *)
(* window, with every due event dispatched, and absent outside it).        *)
(***************************************************************************)
C26_Step ==
    /\ \A i \in OrphanClips :
          LET id == timeline[i].id
          IN  /\ ~MapHas(activeClips', id)
              /\ currentParametersClipId' # id
              /\ id \notin activeClipsWithParams'
              /\ \A k \in 1 .. Len(calls') : calls'[k].clip # id
              /\ \A k \in 1 .. Len(paramLog') : paramLog'[k].clip # id
              /\ \A key \in dispatchedKeys' : key[1] # id
    /\ LoopDurationMs =
          MaxOver({ClipEndMs(timeline[i]) : i \in (1 .. Len(timeline)) \ OrphanClips})
    /\ (IsTickStep /\ isPlaying') =>
          \A i \in (1 .. Len(timeline)) \ OrphanClips :
             LET clip == timeline[i]
                 relativeTimeMs == playbackPosition' - ClipStartMs(clip)
             IN  /\ MapHas(activeClips', clip.id) <=> IsClipPlaying(clip, playbackPosition')
                 /\ IsClipPlaying(clip, playbackPosition') =>
                       \A j \in 1 .. Len(PatternLib[clip.patternId].notes) :
                          LET note == PatternLib[clip.patternId].notes[j]
                          IN  (/\ note.time < PatternLib[clip.patternId].length
                               /\ relativeTimeMs > note.time - ToleranceMs)
                                  => NoteKey(clip, note) \in dispatchedKeys'

C26_OrphanClipSkipped == [][C26_Step]_vars

\* a tick inside the windows of a clip of the missing pattern 2 and of a clip of pattern
\* 1, both placed at beat 0: only the second has an entry and sounds its pitch
C26_Witness ==
    /\ timeline = <<Clip(1, 2, 0), Clip(2, 1, 0)>>
    /\ patterns = PatternIds \ {2}
    /\ isPlaying /\ lastAction.name = "tick"
    /\ playbackPosition > 0 /\ playbackPosition < PatternLib[2].length
    /\ DOMAIN activeClips = {2}
    /\ currentParametersClipId = 2
    /\ tlSounding = {60}

\* the engine prop is null, or the engine object has no WASM engine
EngineNotInitialized == ~audioEngine \/ ~wasmReady

(***************************************************************************)
(* C27: while the audio engine is not initialized (no engine object, or an *)
(* engine object whose WASM engine is not loaded or was disposed), a       *)
(* button-down, a button-up and a timeline tick are no-ops: no engine call *)
(* is issued and the holder sets, the set of active buttons and the        *)
(* recording buffer are left unchanged.                                    *)
(***************************************************************************)
C27_Step ==
    (EngineNotInitialized /\ lastAction'.name \in {"handleButtonDown", "handleButtonUp", "tick"})
        => /\ calls' = <<>>
           /\ UNCHANGED <<globalMidiNotes, activeButtons, recordedNotes>>

C27_UninitializedNoOp == [][C27_Step]_vars

\* the index of the live noteOn in the calls of the step just taken (0: none)
NoteOnIndex ==
    IF \E i \in 1 .. Len(calls') : calls'[i].pool = "live" /\ calls'[i].op = "noteOn"
    THEN CHOOSE i \in 1 .. Len(calls') : calls'[i].pool = "live" /\ calls'[i].op = "noteOn"
    ELSE 0

(***************************************************************************)
(* C28: in every arpeggiator step the pitch the session is sounding is     *)
(* force-stopped (immediate noteOff) before the noteOn of the next pitch,  *)
(* so a session sounds at most one pitch, its current one; and every       *)
(* noteOn of a session is matched by one noteOff of that session before or *)
(* at its release: the release stops the pitch the session still sounds.   *)
(***************************************************************************)
C28_Step ==
    LET d == lastAction'.degree
    IN  /\ (lastAction'.name = "playNote" /\ MapHas(arpSessions, d)) =>
              LET prev == arpSessions[d].cur
                  i == NoteOnIndex
              IN  /\ i > 0
                  /\ arpSessions'[d].cur = calls'[i].note
                  /\ \A j \in 1 .. Len(calls') : j # i => calls'[j].op = "noteOff"
                  /\ IF prev # NoNote
                     THEN i = 2 /\ calls'[1] = Call("live", "noteOff", prev, TRUE, "arpStep", 0)
                     ELSE i = 1
        /\ (lastAction'.name = "handleButtonUp" /\ MapHas(arpSessions, d)
              /\ arpSessions[d].cur # NoNote) =>
              \E j \in 1 .. Len(calls') :
                  /\ calls'[j].pool = "live" /\ calls'[j].op = "noteOff"
                  /\ calls'[j].note = arpSessions[d].cur

C28_OneOffPerOn == [][C28_Step]_vars

(***************************************************************************)
(* C29: when a Begin for pitch p is dispatched for clip c, a force-stop    *)
(* (timelineNoteOff) goes before the timelineNoteOn exactly when p is      *)
(* already marked sounding for clip c itself; a Begin for a pitch marked   *)
(* sounding only for a different clip is dispatched without a force-stop   *)
(* before it; in both cases p is left marked sounding for c.               *)
(***************************************************************************)
C29_RetriggerOwnPitchOnly ==
    \A i \in 1 .. Len(beginLog) :
        /\ beginLog[i].forced <=> beginLog[i].own
        /\ (beginLog[i].other /\ ~beginLog[i].own) => ~beginLog[i].forced
        /\ beginLog[i].marked

(***************************************************************************)
(* C30: whatever the interleaving of play-mode button events, arpeggiator  *)
(* steps, gate timers, arming and stopping, the events of the recording    *)
(* buffer are in insertion order with non-decreasing times, and no         *)
(* recorded time is negative.                                              *)
(***************************************************************************)
C30_TimesNonDecreasing ==
    /\ \A i \in 1 .. Len(recordedNotes) : recordedNotes[i].time >= 0
    /\ \A i \in 1 .. (Len(recordedNotes) - 1) :
          recordedNotes[i].time <= recordedNotes[i + 1].time

(***************************************************************************)
(* C31: a button-down for a degree that is already held (no button-up      *)
(* since its last button-down) is a no-op: it issues no engine call,       *)
(* changes no holder set, starts no arpeggiator timer and appends no       *)
(* recording event; a held degree keeps the one step interval it has.      *)
(***************************************************************************)
C31_Step ==
    (lastAction'.name = "handleButtonDown" /\ lastAction'.degree \in activeButtons) =>
        /\ calls' = <<>>
        /\ UNCHANGED <<globalMidiNotes, activeButtons, activeNotes, arpSessions, staleTimers,
                       liveSounding, recordedNotes, recordingStartTime>>

C31_HeldDownNoOp == [][C31_Step]_vars

\* a second button-down on a button whose arpeggiator session is stepping, while
\* recording is armed and has events: nothing was done
C31_Witness ==
    /\ lastAction.name = "handleButtonDown"
    /\ lastAction.degree \in activeButtons
    /\ MapHas(arpSessions, lastAction.degree)
    /\ arpSessions[lastAction.degree].running
    /\ isRecording /\ Len(recordedNotes) > 0
    /\ calls = <<>>

(***************************************************************************)
(* C32: an immediate noteOff shortens the release only for that stop: the  *)
(* live pool's ADSR is afterwards again the one in effect before the call, *)
(* so every later noteOff with immediate = false (a play-mode release)     *)
(* finds the configured ADSR in the live pool.                             *)
(***************************************************************************)
C32_Step ==
    (\E i \in 1 .. Len(calls') :
        calls'[i].pool = "live" /\ calls'[i].op = "noteOff" /\ ~calls'[i].imm)
        => ~liveParams.adsrCut

C32_AdsrRestored == [][C32_Step]_vars


(***************************************************************************)
(* Properties of the captured parameters (SpecPreset).                     *)
(***************************************************************************)

\* C33: applying the captured parameters of a clip's pattern on its activation, and
\* restoring the store's configuration on the owner's deactivation, never fails
\* part-way (every pattern and the store carry every field the setters read), so
\* that every tick visits every clip of the timeline.
C33_ParametersComplete ==
    \A i \in 1 .. Len(paramLog) : ~paramLog[i].threw


(***************************************************************************)
(* Properties of the holder sets against the live pool (SpecApply).        *)
(***************************************************************************)

\* C34: whatever operation ran (press, release, arpeggiator step or force-stop,
\* applying an artist preset, timeline stop), a pitch whose holder set is not empty
\* is sounding in the live pool.
C34_HeldPitchSounds ==
    \A p \in DOMAIN globalMidiNotes : globalMidiNotes[p] # {} => p \in liveSounding


(***************************************************************************)
(* C35: while recording is not armed no event is appended to the buffer,   *)
(* and an event appended while armed has its time relative to the          *)
(* recordingStartTime of the current arming: a gate-off timeout scheduled  *)
(* during an earlier arming appends nothing once recording was stopped or  *)
(* armed again.                                                            *)
(***************************************************************************)
C35_Step ==
    /\ ~isRecording => Appended = <<>>
    /\ \A i \in 1 .. Len(Appended) : Appended[i].time = now - recordingStartTime'

C35_ArmedOnly == [][C35_Step]_vars


(***************************************************************************)
(* Properties of the engine parameters without an owner (SpecTimeline).    *)
(***************************************************************************)

\* C36: whenever no clip owns the parameter context (before the first activation,
\* after a loop restart, after pause, stop or the end of a non-looping playback), the
\* parameters of the engine are the store's configuration.
C36_GlobalWithoutOwner ==
    currentParametersClipId = 0 => engineParams = Params(0)


\* C37: the calls the timeline scheduler issues (dispatch, deactivation sweep, loop
\* restart, end of a non-looping playback, Stop, pause) are timelineNoteOn and
\* timelineNoteOff only: no step of the transport or of the playback interval calls
\* noteOn or noteOff of the live pool.
C37_Step ==
    lastAction'.name \in {"tick", "togglePlayback", "stopPlayback", "toggleLoop"} =>
        \A i \in 1 .. Len(calls') : calls'[i].pool = "timeline"

C37_TimelinePoolOnly == [][C37_Step]_vars


(***************************************************************************)
(* Properties of the replay of a recording (SpecReplay).                   *)
(***************************************************************************)

\* C38: during a play-mode recording armed with no button held, after each handler
\* the timeline pool that replays the recorded events in order sounds the pitches
\* the live pool sounds: a pitch shared by two overlapping chords sounds on replay
\* until the last of its recorded noteOff events.
C38_ReplayMatchesLive ==
    isRecording => ReplaySounding(recordedNotes) = liveSounding


(***************************************************************************)
(* Properties of the holder sets across mode changes (SpecShared).         *)
(***************************************************************************)
HoldersOf(m, p) == IF MapHas(m, p) THEN m[p] ELSE {}

\* C39: the release of a held button d removes d from the holder set of every pitch and
\* from no other button's, and leaves no stored chord for d, whatever chord a press
\* would generate now and whatever the playback mode has become; and a holder set
\* contains d only while d is held and the pitch is in the chord stored at d's press.
C39_Step ==
    /\ (lastAction'.name = "handleButtonUp" /\ lastAction'.degree \in activeButtons) =>
          /\ \A p \in PitchSet :
                HoldersOf(globalMidiNotes', p) = HoldersOf(globalMidiNotes, p) \ {lastAction'.degree}
          /\ ~MapHas(activeNotes', lastAction'.degree)
          /\ lastAction'.degree \notin activeButtons'
    /\ \A p \in DOMAIN globalMidiNotes' :
          \A d \in globalMidiNotes'[p] :
             d \in activeButtons' /\ MapHas(activeNotes', d) /\ p \in Range(activeNotes'[d])

C39_OwnPitchesReleased == [][C39_Step]_vars

\* a button pressed in play mode on a two-pitch chord was released after the mode
\* became arpeggiator, while another button still holds one of its pitches: the other
\* pitch alone was stopped
C39_Witness ==
    /\ lastAction.name = "handleButtonUp"
    /\ lastAction.degree \notin activeButtons
    /\ currentMode = "arpeggiator"
    /\ Len(calls) = 1 /\ calls[1].op = "noteOff" /\ calls[1].imm
    /\ \E p \in DOMAIN globalMidiNotes :
          p # calls[1].note /\ globalMidiNotes[p] # {} /\ lastAction.degree \notin globalMidiNotes[p]


(***************************************************************************)
(* Properties of the arpeggiator's sequence for every chord (Spec).        *)
(***************************************************************************)

\* C40: for every non-empty chord, every octave count and every pattern, the sequence
\* of a running arpeggiator is not empty and holds only pitches of the chord extended
\* over the octaves, and the note a step sends to noteOn is a note of that sequence.
C40_StepsInExtendedChord ==
    /\ \A chord \in Chords, octaves \in 1 .. MaxOctaves, pattern \in ArpPatterns :
          Range(ArpNotes(chord, pattern, octaves)) \subseteq Range(ExtendChord(chord, 0, octaves))
    /\ \A d \in DOMAIN arpSessions :
          arpSessions[d].running =>
              /\ arpSessions[d].notes # <<>>
              /\ arpSessions[d].cur # NoNote => arpSessions[d].cur \in Range(arpSessions[d].notes)
              /\ \A i \in 1 .. Len(calls) :
                    (calls[i].op = "noteOn" /\ lastAction.degree = d) =>
                        calls[i].note \in Range(arpSessions[d].notes)

=============================================================================
